---- MODULE Spec2Model ----
(***************************************************************************)
(* Model of the two scraping pipelines of the repository:                  *)
(*   civicplus_scraper.py      (definitions prefixed CP_)                  *)
(*   scrape_municipal_staff.py (definitions prefixed MS_)                  *)
(* One run executes one of the two scripts; prog says which.               *)
(***************************************************************************)
EXTENDS Integers, Sequences, FiniteSets, TLC

VARIABLES
    prog,                \* which script this run executes
    pc,                  \* position of main()
    results_buffer,      \* module global results_buffer of the running script
    csv_disk,            \* rows of OUTPUT_FILE that survive a process kill
    csv_buf,             \* rows written to output_file_handle, not yet flushed
    logged,              \* the records the "wrote N records" log lines report
    extractor_calls,     \* HTTP statuses of the ids the extractor was invoked on
    emitted,             \* number of records added to a results list so far
    init_failed,         \* the output store could not be opened or initialized
    shutdown_requested,  \* civicplus_scraper.py global
    muni_i,              \* main(): index of the for loop over municipalities
    next_id,             \* scrape_municipality(): did / eid of the creation loop
    n_tasks,             \* scrape_municipality(): len(department_tasks / staff_tasks)
    results,             \* scrape_municipality(): local results
    total_processed,     \* scraper.total_processed
    total_errors,        \* scraper.total_errors
    should_stop,         \* scrape_municipal_staff.py global
    output_writer,       \* "none" or "set"
    output_file_handle,  \* "none", "open" or "closed"
    success_file_handle, \* "none", "open" or "closed"
    not_found_file_handle, \* "none", "open" or "closed"
    success_disk,        \* flushed rows of SUCCESS_LOG_FILE
    success_buf,         \* unflushed rows of success_file_handle
    not_found_disk,      \* flushed rows of NOT_FOUND_LOG_FILE
    not_found_buf,       \* unflushed rows of not_found_file_handle
    batch_count,         \* write_batch_to_csv.batch_count (-1: attribute not set)
    last_flush_time,     \* write_batch_to_csv.last_flush_time (-1: not set)
    last_auto_save,      \* module global last_auto_save (-1: None)
    now,                 \* time.time()
    mpc,                 \* position of each process_with_semaphore task
    batch_i,             \* process_municipality(): index into eid_batches
    status_results,      \* process_eid_batch(): phase-1 results
    valid_urls,          \* process_eid_batch(): eids whose probe returned 200
    content_results,     \* process_eid_batch(): phase-2 results
    idx,                 \* process_eid_batch(): position of the result loop
    spc,                 \* request level: position of each site's gather
    fetches,             \* request level: the fetch coroutine of each (site, id)
    failed_attempts,     \* request level: attempts of each site that raised
    concurrent_limit,      \* SmartRateLimiter.concurrent_limit
    consecutive_successes, \* SmartRateLimiter.consecutive_successes
    consecutive_failures,  \* SmartRateLimiter.consecutive_failures
    last_call,             \* the last call made on the rate limiter
    site_pages,          \* two runs: what the one site answers for every id
    run_no,              \* two runs: 0 before the first run, then 1, 2
    run_pc,              \* two runs: position of the current run
    eid_i,               \* two runs: the id the current run has come to
    first_run,           \* two runs: what the first run left in its store
    html_content,        \* extraction: the staff page handed to the extractor
    email_pc,            \* extraction: "idle", "loaded", "extracted"
    email,               \* extraction: the email field of the result
    eid_range,           \* sub-batches: the declared last id and EID_BATCH_SIZE
    eid_batches,         \* sub-batches: the list process_municipality builds
    batch_range_i,       \* sub-batches: index of the next element of the loop
    probed_eids,         \* sub-batches: the ids handed to process_eid_batch
    places,              \* finder: the places to process, in input order
    existing_results,    \* finder: "empty" or "nonempty" (places already done)
    batch_idx,           \* finder: index of the current batch (from 0)
    fpc,                 \* finder: "idle", "gather", "collect", "done"
    gather_results,      \* finder: what asyncio.gather returned for the batch
    batch_results,       \* finder: what process_batch_parallel returned last
    all_results,         \* finder: all_results of process_all_places_parallel
    output_file          \* finder: the rows of websites.csv

varsShared == <<prog, pc, results_buffer, csv_disk, csv_buf, logged,
                extractor_calls, emitted, init_failed>>
varsCP == <<shutdown_requested, muni_i, next_id, n_tasks, results,
            total_processed, total_errors>>
varsMSio == <<output_writer, output_file_handle, success_file_handle,
              not_found_file_handle, success_disk, success_buf,
              not_found_disk, not_found_buf, batch_count, last_flush_time,
              last_auto_save, now>>
varsMStask == <<mpc, batch_i, status_results, valid_urls, content_results, idx>>
varsMS == <<should_stop, varsMSio, varsMStask>>
varsFetch == <<spc, fetches, failed_attempts>>
varsFinder == <<concurrent_limit, consecutive_successes, consecutive_failures,
                last_call>>
varsRerun == <<site_pages, run_no, run_pc, eid_i, first_run>>
varsEmail == <<html_content, email_pc, email>>
varsBatches == <<eid_range, eid_batches, batch_range_i, probed_eids>>
varsPlaces == <<places, existing_results, batch_idx, fpc, gather_results,
                batch_results, all_results, output_file>>
varsRest == <<varsFinder, varsRerun, varsEmail, varsBatches, varsPlaces>>
vars == <<varsShared, varsCP, varsMS, varsFetch, varsRest>>

----------------------------------------------------------------------------
(* Bounds of the model.  The id ranges, batch sizes and flush period of the *)
(* scripts are scaled down; the comments give the values of the source.     *)

NumMunis == 2           \* rows of INPUT_FILE
MaxDid == 1             \* department ids 1..MaxDid (1..99 in civicplus_scraper.py:232)
MaxEid == 2             \* staff ids 1..MaxEid (1..999 in both scripts)
MaxRecords == 3         \* pages of the sites that yield a record, over one run
MaxErrors == 1          \* fetches that exhaust their retries, over one run
CP_BATCH_SIZE == 2      \* BATCH_SIZE (50 in civicplus_scraper.py:35)
MS_BATCH_SIZE == 2      \* BATCH_SIZE (500 in scrape_municipal_staff.py:34)
EID_BATCH_SIZE == 1     \* EID_BATCH_SIZE (15 in scrape_municipal_staff.py:37)
MS_MAX_CONCURRENT_REQUESTS == 2  \* 100 in scrape_municipal_staff.py:36
FLUSH_EVERY == 3        \* batch writes per forced flush (10 in line 280)
TickSeconds == 150      \* seconds by which the clock advances in one step
MaxTime == 600          \* the clock stops advancing here

AUTO_SAVE_INTERVAL == 300
FLUSH_AFTER == 60

Munis == 1..NumMunis

None == [none |-> TRUE]

\* A row of OUTPUT_FILE: the header, or a record reduced to its kind, its
\* identity field (Department or Person; "x" stands for any non-empty text)
\* and the fetch outcome it was extracted from.
HeaderRow == [kind |-> "header", ident |-> "", fetch |-> ""]

Min(a, b) == IF a <= b THEN a ELSE b

Range(s) == {s[i] : i \in 1..Len(s)}

\* The records among the rows of a file.
DataRows(rows) == SelectSeq(rows, LAMBDA r : r.kind # "header")

HeaderCount(rows) == Len(rows) - Len(DataRows(rows))

IsPrefix(s, t) == Len(s) <= Len(t) /\ SubSeq(t, 1, Len(s)) = s

----------------------------------------------------------------------------
(* civicplus_scraper.py                                                     *)

\* What one fetch of a candidate page ends with: a 200 page whose identity
\* element is present ("named"), a 200 page without it ("unnamed"), a 200
\* page on which the parser raises ("broken"), HTTP 404, another status, or
\* all attempts failed with a timeout or a client error.
CP_Outcomes == {"named", "unnamed", "broken", "s404", "other", "exhausted"}

CP_StatusOf(o) == IF o = "s404" THEN 404 ELSE IF o = "other" THEN 503 ELSE 200

\* fetch_with_retry: None on 404 and after the last failed attempt,
\* (status, html) for every other response.
CP_fetch_with_retry(o) ==
    IF o \in {"s404", "exhausted"} THEN None
    ELSE [status |-> CP_StatusOf(o), html |-> o]

\* Mutation of CP_parse_page: a page on which parsing raises yields the
\* fields with their initial values instead of None.
CP_parse_page_empty_on_error(html) ==
    [ident |-> IF html = "named" THEN "x" ELSE ""]

\* parse_department_page / parse_staff_page: None when parsing raised, else
\* the extracted fields; the identity is "" when its element is absent.
CP_parse_page(html) ==
    IF html = "broken" THEN None
    ELSE [ident |-> IF html = "named" THEN "x" ELSE ""]

\* Whether scrape_department / scrape_staff reaches the parser.
CP_reaches_parser(o) ==
    LET response == CP_fetch_with_retry(o)
    IN  response # None /\ response.status = 200

\* scrape_department / scrape_staff: the coroutine's result for one id.
CP_scrape_page(o, kind) ==
    IF ~CP_reaches_parser(o) THEN None
    ELSE LET info == CP_parse_page(CP_fetch_with_retry(o).html)
         IN  IF info = None THEN None
             ELSE [kind |-> kind, ident |-> info.ident, fetch |-> o]

\* The filter of the gather results: isinstance(result, dict) and result.
CP_keep_result(r) == r # None

\* The results appended by one gather over tasks 1..n with outcomes f.
RECURSIVE CP_collect(_, _, _)
CP_collect(f, kind, n) ==
    IF n = 0 THEN <<>>
    ELSE LET r == CP_scrape_page(f[n], kind)
         IN  CP_collect(f, kind, n - 1)
                 \o (IF CP_keep_result(r) THEN <<r>> ELSE <<>>)

\* Mutation of CP_write_results_batch: the file is opened with mode 'w' for
\* every write.
CP_write_results_batch_overwrite(file, rs, write_header, ok) ==
    IF ~ok THEN file
    ELSE IF rs = <<>> THEN (IF write_header THEN <<>> ELSE file)
    ELSE (IF write_header THEN <<HeaderRow>> ELSE <<>>) \o rs

\* write_results_batch: the rows of the file after the call.  ok = FALSE is
\* an exception inside the try block (caught and logged).
CP_write_results_batch(file, rs, write_header, ok) ==
    IF ~ok THEN file
    ELSE LET base == IF write_header THEN <<>> ELSE file
         IN  IF rs = <<>> THEN base
             ELSE base \o (IF write_header THEN <<HeaderRow>> ELSE <<>>) \o rs

\* write_results_batch, line 329: the records the log line reports written.
CP_logged_by_write(rs, ok) == IF ok THEN rs ELSE <<>>

\* main(), line 389: the size trigger of the batch write.
CP_flush_due(n) == n >= CP_BATCH_SIZE

CP_Alive == prog = "civicplus" /\ pc # "done"

\* main(), lines 350-362: the input file is missing or unreadable.
CP_main_load ==
    /\ prog = "civicplus" /\ pc = "start"
    /\ \E input_ok \in BOOLEAN :
           pc' = IF input_ok THEN "init_output" ELSE "done"
    /\ UNCHANGED <<prog, results_buffer, csv_disk, csv_buf, logged,
                   extractor_calls, emitted, init_failed, varsCP, varsMS, varsFetch, varsRest>>

\* main(), line 365: write_results_batch([], OUTPUT_FILE, write_header=True).
CP_main_init_output ==
    /\ prog = "civicplus" /\ pc = "init_output"
    /\ \E ok \in BOOLEAN :
           /\ csv_disk' = CP_write_results_batch(csv_disk, <<>>, TRUE, ok)
           /\ init_failed' = ~ok
    /\ pc' = "loop"
    /\ UNCHANGED <<prog, results_buffer, csv_buf, logged, extractor_calls,
                   emitted, varsCP, varsMS, varsFetch, varsRest>>

\* main(), lines 372-381: top of the loop over municipalities.
CP_main_loop ==
    /\ prog = "civicplus" /\ pc = "loop"
    /\ IF muni_i > NumMunis \/ shutdown_requested
       THEN /\ pc' = "final"
            /\ UNCHANGED <<next_id, n_tasks, results>>
       ELSE /\ pc' = "dept_create"
            /\ next_id' = 1
            /\ n_tasks' = 0
            /\ results' = <<>>
    /\ UNCHANGED <<prog, results_buffer, csv_disk, csv_buf, logged,
                   extractor_calls, emitted, init_failed, shutdown_requested, muni_i,
                   total_processed, total_errors, varsMS, varsFetch, varsRest>>

\* scrape_municipality(), lines 232-236 and 247-251: one iteration of a
\* task creation loop.
CP_create_task ==
    /\ prog = "civicplus" /\ pc \in {"dept_create", "staff_create"}
    /\ next_id <= (IF pc = "dept_create" THEN MaxDid ELSE MaxEid)
    /\ ~shutdown_requested
    /\ n_tasks' = n_tasks + 1
    /\ next_id' = next_id + 1
    /\ UNCHANGED <<varsShared, shutdown_requested, muni_i, results,
                   total_processed, total_errors, varsMS, varsFetch, varsRest>>

\* scrape_municipality(), lines 238-239 and 253-254: the creation loop ends
\* (range exhausted or break); a non-empty task list is gathered, which
\* issues its requests.
CP_start_gather ==
    /\ prog = "civicplus" /\ pc \in {"dept_create", "staff_create"}
    /\ \/ next_id > (IF pc = "dept_create" THEN MaxDid ELSE MaxEid)
       \/ shutdown_requested
    /\ pc' = IF n_tasks > 0
             THEN (IF pc = "dept_create" THEN "dept_gather" ELSE "staff_gather")
             ELSE (IF pc = "dept_create" THEN "staff_check" ELSE "return")
    /\ UNCHANGED <<prog, results_buffer, csv_disk, csv_buf, logged,
                   extractor_calls, emitted, init_failed, varsCP, varsMS, varsFetch, varsRest>>

\* scrape_municipality(), lines 239-242 and 254-257: the gather completes
\* and its results are filtered into results.
CP_gather_done ==
    /\ prog = "civicplus" /\ pc \in {"dept_gather", "staff_gather"}
    /\ \E f \in [1..n_tasks -> CP_Outcomes] :
         LET kind == IF pc = "dept_gather" THEN "dept" ELSE "staff"
             got == CP_collect(f, kind, n_tasks)
             errs == Cardinality({t \in 1..n_tasks : f[t] = "exhausted"})
         IN  /\ emitted + Len(got) <= MaxRecords
             /\ total_errors + errs <= MaxErrors
             /\ results' = results \o got
             /\ emitted' = emitted + Len(got)
             /\ total_errors' = total_errors + errs
             /\ extractor_calls' = extractor_calls \cup
                    {CP_StatusOf(f[t]) : t \in {u \in 1..n_tasks : CP_reaches_parser(f[u])}}
    /\ pc' = IF pc = "dept_gather" THEN "staff_check" ELSE "return"
    /\ UNCHANGED <<prog, results_buffer, csv_disk, csv_buf, logged, init_failed,
                   shutdown_requested, muni_i, next_id, n_tasks,
                   total_processed, varsMS, varsFetch, varsRest>>

\* scrape_municipality(), line 245.
CP_staff_check ==
    /\ prog = "civicplus" /\ pc = "staff_check"
    /\ IF shutdown_requested
       THEN pc' = "return" /\ UNCHANGED <<next_id, n_tasks>>
       ELSE pc' = "staff_create" /\ next_id' = 1 /\ n_tasks' = 0
    /\ UNCHANGED <<prog, results_buffer, csv_disk, csv_buf, logged,
                   extractor_calls, emitted, init_failed, shutdown_requested, muni_i,
                   results, total_processed, total_errors, varsMS, varsFetch, varsRest>>

\* main(), lines 385-386: scrape_municipality returns, the buffer is extended.
CP_main_extend ==
    /\ prog = "civicplus" /\ pc = "return"
    /\ results_buffer' = results_buffer \o results
    /\ results' = <<>>
    /\ pc' = "flush_check"
    /\ UNCHANGED <<prog, csv_disk, csv_buf, logged, extractor_calls, emitted,
                   init_failed, shutdown_requested, muni_i, next_id, n_tasks,
                   total_processed, total_errors, varsMS, varsFetch, varsRest>>

\* main(), lines 388-393: the size-triggered batch write.
CP_main_flush_check ==
    /\ prog = "civicplus" /\ pc = "flush_check"
    /\ IF CP_flush_due(Len(results_buffer))
       THEN \E ok \in BOOLEAN :
              /\ csv_disk' = CP_write_results_batch(csv_disk, results_buffer, FALSE, ok)
              /\ logged' = logged \o CP_logged_by_write(results_buffer, ok)
              /\ results_buffer' = <<>>
       ELSE UNCHANGED <<csv_disk, logged, results_buffer>>
    /\ total_processed' = total_processed + 1
    /\ muni_i' = muni_i + 1
    /\ pc' = "loop"
    /\ UNCHANGED <<prog, csv_buf, extractor_calls, emitted, init_failed,
                   shutdown_requested, next_id, n_tasks, results,
                   total_errors, varsMS, varsFetch, varsRest>>

\* main(), lines 406-409: the final write of the remaining results.
CP_main_final ==
    /\ prog = "civicplus" /\ pc = "final"
    /\ IF results_buffer # <<>>
       THEN \E ok \in BOOLEAN :
              /\ csv_disk' = CP_write_results_batch(csv_disk, results_buffer, FALSE, ok)
              /\ logged' = logged \o CP_logged_by_write(results_buffer, ok)
              /\ results_buffer' = <<>>
       ELSE UNCHANGED <<csv_disk, logged, results_buffer>>
    /\ pc' = "done"
    /\ UNCHANGED <<prog, csv_buf, extractor_calls, emitted, init_failed, varsCP, varsMS, varsFetch, varsRest>>

\* signal_handler: SIGINT or SIGTERM arrives.
CP_signal_handler ==
    /\ CP_Alive /\ pc # "start"
    /\ ~shutdown_requested
    /\ shutdown_requested' = TRUE
    /\ UNCHANGED <<varsShared, muni_i, next_id, n_tasks, results,
                   total_processed, total_errors, varsMS, varsFetch, varsRest>>

CP_Next ==
    \/ CP_main_load
    \/ CP_main_init_output
    \/ CP_main_loop
    \/ CP_create_task
    \/ CP_start_gather
    \/ CP_gather_done
    \/ CP_staff_check
    \/ CP_main_extend
    \/ CP_main_flush_check
    \/ CP_main_final
    \/ CP_signal_handler

----------------------------------------------------------------------------
(* scrape_municipal_staff.py                                                *)

\* check_url_exists: the status of the HEAD response, whatever it is, or
\* None after MAX_RETRIES failed attempts.
MS_NoStatus == 0
MS_ProbeOutcomes == {200, 404, 503, MS_NoStatus}

\* What the GET of fetch_content ends with (as CP_Outcomes).
MS_ContentOutcomes == {"named", "unnamed", "broken", "s404", "other", "exhausted"}

MS_StatusOf(c) == IF c = "s404" THEN 404 ELSE IF c = "other" THEN 503
                  ELSE IF c = "exhausted" THEN MS_NoStatus ELSE 200

\* fetch_content: the body when the status is 200, else None.
MS_NoContent == "None"
MS_fetch_content(c) == IF MS_StatusOf(c) = 200 THEN c ELSE MS_NoContent

\* extract_staff_info: None when parsing raised, else the extracted fields.
MS_extract_staff_info(content) ==
    IF content = "broken" THEN None
    ELSE [person |-> IF content = "named" THEN "x" ELSE ""]

\* process_eid_batch, line 392: if staff_info and staff_info['person'].
MS_emits(staff_info) == staff_info # None /\ staff_info.person # ""

\* Mutation of MS_is_valid: only a failed probe and a 404 are dropped.
MS_is_valid_not_404(status_result) ==
    status_result \notin {MS_NoStatus, 404}

\* Mutation of MS_is_valid: every probe that returned a status is kept.
MS_is_valid_any_status(status_result) == status_result # MS_NoStatus

\* process_eid_batch, lines 366-376: whether a probe result joins valid_urls.
MS_is_valid(status_result) == status_result # MS_NoStatus /\ status_result = 200

\* eid_batches, line 447: the number of sub-batches and the length of each.
MS_NumBatches == (MaxEid + EID_BATCH_SIZE - 1) \div EID_BATCH_SIZE
MS_BatchLen(b) == Min(b * EID_BATCH_SIZE, MaxEid) - (b - 1) * EID_BATCH_SIZE

\* municipality_semaphore, line 545.
MS_MuniPermits == MS_MAX_CONCURRENT_REQUESTS \div 2

\* write_batch_to_csv, lines 280-281: whether this call forces a flush.
MS_flush_due(count, t, lft) ==
    count % FLUSH_EVERY = 0 \/ t - lft > FLUSH_AFTER

\* The state the writer functions work on.
MS_writer_state ==
    [buffer |-> results_buffer, buf |-> csv_buf, disk |-> csv_disk,
     count |-> batch_count, lft |-> last_flush_time, las |-> last_auto_save,
     logged |-> logged]

\* write_batch_to_csv(batch) at time t.
MS_write_batch_to_csv(w, batch, t) ==
    IF batch = <<>> \/ output_writer = "none" THEN w
    ELSE LET count1 == (IF w.count = -1 THEN 0 ELSE w.count) + 1
             lft0 == IF w.count = -1 THEN t ELSE w.lft
             due == MS_flush_due(count1, t, lft0)
         IN  [w EXCEPT !.buf = IF due THEN <<>> ELSE w.buf \o batch,
                       !.disk = IF due THEN w.disk \o w.buf \o batch ELSE w.disk,
                       !.count = count1,
                       !.lft = IF due THEN t ELSE lft0,
                       !.las = t]

\* Mutation of MS_drain: the buffer is cleared before it is written.
MS_drain_clear_first(w, t) ==
    [MS_write_batch_to_csv(w, <<>>, t) EXCEPT
        !.buffer = <<>>, !.logged = w.logged \o w.buffer]

\* A write of the whole buffer followed by results_buffer.clear() and the
\* log line that reports it.
MS_drain(w, t) ==
    [MS_write_batch_to_csv(w, w.buffer, t) EXCEPT
        !.buffer = <<>>, !.logged = w.logged \o w.buffer]

\* process_eid_batch, line 409: the size trigger of the batch write.
MS_size_due(n) == n >= MS_BATCH_SIZE

\* process_eid_batch, lines 405-413: append and size-triggered write.
MS_append(w, record, t) ==
    LET w1 == [w EXCEPT !.buffer = Append(w.buffer, record)]
    IN  IF MS_size_due(Len(w1.buffer)) THEN MS_drain(w1, t) ELSE w1

\* Mutation of MS_check_auto_save: the interval must be exceeded, not reached.
MS_check_auto_save_strict(w, t) ==
    IF w.buffer = <<>> THEN w
    ELSE IF w.las = -1 THEN [w EXCEPT !.las = t]
    ELSE IF t - w.las > AUTO_SAVE_INTERVAL THEN MS_drain(w, t)
    ELSE w

\* Mutation of MS_check_auto_save: when the interval has elapsed the buffer
\* is cleared and nothing is written.
MS_check_auto_save_clear_only(w, t) ==
    IF w.buffer = <<>> THEN w
    ELSE IF w.las = -1 THEN [w EXCEPT !.las = t]
    ELSE IF t - w.las >= AUTO_SAVE_INTERVAL
         THEN [w EXCEPT !.buffer = <<>>, !.las = t]
    ELSE w

\* check_auto_save at time t.
MS_check_auto_save(w, t) ==
    IF w.buffer = <<>> THEN w
    ELSE IF w.las = -1 THEN [w EXCEPT !.las = t]
    ELSE IF t - w.las >= AUTO_SAVE_INTERVAL THEN MS_drain(w, t)
    ELSE w

\* Mutation of MS_log_successful_eid: the row is written and not flushed.
MS_log_successful_eid_no_flush(log, row) ==
    IF success_file_handle = "none" THEN log
    ELSE [buf |-> log.buf \o <<row>>, disk |-> log.disk]

\* Mutation of MS_log_successful_eid: the log is rewritten from its header
\* on every call (opened in mode 'w' instead of appended to).
MS_log_successful_eid_truncating(log, row) ==
    IF success_file_handle = "none" THEN log
    ELSE [buf |-> <<>>, disk |-> <<HeaderRow, row>>]

\* log_successful_eid: writerow, then flush, on [buf, disk].
MS_log_successful_eid(log, row) ==
    IF success_file_handle = "none" THEN log
    ELSE [buf |-> <<>>, disk |-> log.disk \o log.buf \o <<row>>]

\* log_404_eid: writerow, then flush, on [buf, disk].
MS_log_404_eid(log, row) ==
    IF not_found_file_handle = "none" THEN log
    ELSE [buf |-> <<>>, disk |-> log.disk \o log.buf \o <<row>>]

\* Mutation of MS_on_404: the 404 branch calls log_404_eid.
MS_on_404_logged(log, row) == MS_log_404_eid(log, row)

\* Mutation of MS_on_404: the 404 branch writes the row itself, unflushed.
MS_on_404_writerow(log, row) ==
    IF not_found_file_handle = "none" THEN log
    ELSE [buf |-> log.buf \o <<row>>, disk |-> log.disk]

\* process_eid_batch, lines 369-371: the branch taken for a 404 status. Its
\* only statement, the call of log_404_eid, is a comment ("Disabled to prevent
\* huge file", as disable_404_logging.py prescribes): the log is left as it is.
MS_on_404(log, row) == log

MS_Active(m) == mpc[m] \notin {"created", "done"}

\* main(), lines 475-493: the input file is missing, unreadable or empty.
MS_main_load ==
    /\ prog = "staff" /\ pc = "start"
    /\ \E input_ok \in BOOLEAN :
           pc' = IF input_ok THEN "prepare" ELSE "done"
    /\ UNCHANGED <<prog, results_buffer, csv_disk, csv_buf, logged,
                   extractor_calls, emitted, init_failed, varsCP, varsFetch, varsRest, varsMS>>

\* main(), lines 495-523: the three output files are opened in turn, each
\* header written and flushed; fail names the open that raises.
MS_main_prepare ==
    /\ prog = "staff" /\ pc = "prepare"
    /\ \E fail \in {"none", "output", "success_log", "not_found_log"} :
         /\ init_failed' = (fail = "output")
         /\ pc' = IF fail = "none" THEN "gather" ELSE "done"
         /\ IF fail # "output"
            THEN /\ output_file_handle' = "open"
                 /\ output_writer' = "set"
                 /\ csv_disk' = <<HeaderRow>>
            ELSE UNCHANGED <<output_file_handle, output_writer, csv_disk>>
         /\ IF fail \in {"none", "not_found_log"}
            THEN /\ success_file_handle' = "open"
                 /\ success_disk' = <<HeaderRow>>
            ELSE UNCHANGED <<success_file_handle, success_disk>>
         /\ IF fail = "none"
            THEN /\ not_found_file_handle' = "open"
                 /\ not_found_disk' = <<HeaderRow>>
            ELSE UNCHANGED <<not_found_file_handle, not_found_disk>>
    /\ UNCHANGED <<prog, results_buffer, csv_buf, logged, extractor_calls,
                   emitted, varsCP, varsFetch, varsRest, should_stop, success_buf, not_found_buf,
                   batch_count, last_flush_time, last_auto_save, now,
                   varsMStask>>

\* process_with_semaphore, line 548: the tasks acquire municipality_semaphore
\* in the order in which gather created them.
MS_acquire(m) ==
    /\ prog = "staff" /\ pc = "gather"
    /\ mpc[m] = "created"
    /\ \A k \in Munis : k < m => mpc[k] # "created"
    /\ Cardinality({k \in Munis : MS_Active(k)}) < MS_MuniPermits
    /\ mpc' = [mpc EXCEPT ![m] = "loop"]
    /\ batch_i' = [batch_i EXCEPT ![m] = 1]
    /\ UNCHANGED <<varsShared, varsCP, varsFetch, varsRest, should_stop, varsMSio,
                   status_results, valid_urls, content_results, idx>>

\* Mutation of MS_batch_loop: the loop does not look at should_stop.
MS_batch_loop_ignores_stop(m) ==
    /\ prog = "staff" /\ pc = "gather"
    /\ mpc[m] = "loop"
    /\ mpc' = [mpc EXCEPT ![m] =
                  IF batch_i[m] > MS_NumBatches THEN "done" ELSE "probing"]
    /\ UNCHANGED <<varsShared, varsCP, varsFetch, varsRest, should_stop, varsMSio, batch_i,
                   status_results, valid_urls, content_results, idx>>

\* process_municipality, lines 449-454: top of the loop over eid_batches;
\* a new sub-batch issues its existence probes.
MS_batch_loop(m) ==
    /\ prog = "staff" /\ pc = "gather"
    /\ mpc[m] = "loop"
    /\ mpc' = [mpc EXCEPT ![m] =
                  IF batch_i[m] > MS_NumBatches \/ should_stop
                  THEN "done" ELSE "probing"]
    /\ UNCHANGED <<varsShared, varsCP, varsFetch, varsRest, should_stop, varsMSio, batch_i,
                   status_results, valid_urls, content_results, idx>>

\* process_eid_batch, line 356: the gather of the probes completes.
MS_probes_done(m) ==
    /\ prog = "staff" /\ pc = "gather"
    /\ mpc[m] = "probing"
    /\ \E st \in [1..MS_BatchLen(batch_i[m]) -> MS_ProbeOutcomes] :
           status_results' = [status_results EXCEPT ![m] = st]
    /\ valid_urls' = [valid_urls EXCEPT ![m] = <<>>]
    /\ idx' = [idx EXCEPT ![m] = 1]
    /\ mpc' = [mpc EXCEPT ![m] = "filter"]
    /\ UNCHANGED <<varsShared, varsCP, varsFetch, varsRest, should_stop, varsMSio, batch_i,
                   content_results>>

\* process_eid_batch, lines 360-376: one iteration of the filter loop.
MS_filter_iter(m) ==
    /\ prog = "staff" /\ pc = "gather"
    /\ mpc[m] = "filter"
    /\ idx[m] <= Len(status_results[m])
    /\ ~should_stop
    /\ valid_urls' = [valid_urls EXCEPT ![m] =
                         IF MS_is_valid(status_results[m][idx[m]])
                         THEN Append(@, idx[m]) ELSE @]
    /\ LET lg == [buf |-> not_found_buf, disk |-> not_found_disk]
           row == [kind |-> "not_found", ident |-> "", fetch |-> "404"]
           l2 == IF status_results[m][idx[m]] = 404 THEN MS_on_404(lg, row) ELSE lg
       IN  /\ not_found_buf' = l2.buf
           /\ not_found_disk' = l2.disk
    /\ idx' = [idx EXCEPT ![m] = @ + 1]
    /\ UNCHANGED <<varsShared, varsCP, varsFetch, varsRest, should_stop, output_writer,
                   output_file_handle, success_file_handle,
                   not_found_file_handle, success_disk, success_buf,
                   batch_count, last_flush_time, last_auto_save, now, mpc,
                   batch_i, status_results, content_results>>

\* process_eid_batch, lines 361-362 and 379-381: the filter loop ends
\* (exhausted or break); the content of the valid urls is requested.
MS_filter_exit(m) ==
    /\ prog = "staff" /\ pc = "gather"
    /\ mpc[m] = "filter"
    /\ idx[m] > Len(status_results[m]) \/ should_stop
    /\ mpc' = [mpc EXCEPT ![m] =
                  IF valid_urls[m] # <<>> THEN "fetching" ELSE "sleep"]
    /\ UNCHANGED <<varsShared, varsCP, varsFetch, varsRest, should_stop, varsMSio, batch_i,
                   status_results, valid_urls, content_results, idx>>

\* process_eid_batch, line 381: the gather of the content fetches completes.
MS_contents_done(m) ==
    /\ prog = "staff" /\ pc = "gather"
    /\ mpc[m] = "fetching"
    /\ \E cs \in [1..Len(valid_urls[m]) -> MS_ContentOutcomes] :
         /\ emitted + Cardinality({k \in DOMAIN cs : cs[k] = "named"}) <= MaxRecords
         /\ content_results' = [content_results EXCEPT ![m] = cs]
    /\ idx' = [idx EXCEPT ![m] = 1]
    /\ mpc' = [mpc EXCEPT ![m] = "process"]
    /\ UNCHANGED <<varsShared, varsCP, varsFetch, varsRest, should_stop, varsMSio, batch_i,
                   status_results, valid_urls>>

\* process_eid_batch, lines 383-416: one iteration of the result loop.
MS_process_iter(m) ==
    /\ prog = "staff" /\ pc = "gather"
    /\ mpc[m] = "process"
    /\ idx[m] <= Len(content_results[m])
    /\ ~should_stop
    /\ LET c == content_results[m][idx[m]]
           content == MS_fetch_content(c)
           staff_info == MS_extract_staff_info(content)
           record == [kind |-> "staff", ident |-> staff_info.person, fetch |-> c]
           w0 == MS_writer_state
           w1 == IF MS_emits(staff_info) THEN MS_append(w0, record, now) ELSE w0
           w2 == MS_check_auto_save(w1, now)
           lg == MS_log_successful_eid([buf |-> success_buf, disk |-> success_disk], record)
       IN  IF content = MS_NoContent
           THEN UNCHANGED <<results_buffer, csv_buf, csv_disk, batch_count,
                            last_flush_time, last_auto_save, logged,
                            success_buf, success_disk, extractor_calls, emitted>>
           ELSE /\ extractor_calls' = extractor_calls \cup
                        {status_results[m][valid_urls[m][idx[m]]], MS_StatusOf(c)}
                /\ results_buffer' = w2.buffer
                /\ csv_buf' = w2.buf
                /\ csv_disk' = w2.disk
                /\ batch_count' = w2.count
                /\ last_flush_time' = w2.lft
                /\ last_auto_save' = w2.las
                /\ logged' = w2.logged
                /\ IF MS_emits(staff_info)
                   THEN /\ success_buf' = lg.buf
                        /\ success_disk' = lg.disk
                        /\ emitted' = emitted + 1
                   ELSE UNCHANGED <<success_buf, success_disk, emitted>>
    /\ idx' = [idx EXCEPT ![m] = @ + 1]
    /\ UNCHANGED <<prog, pc, init_failed, varsCP, varsFetch, varsRest, should_stop, output_writer,
                   output_file_handle, success_file_handle,
                   not_found_file_handle, not_found_disk, not_found_buf, now,
                   mpc, batch_i, status_results, valid_urls, content_results>>

\* Mutation of MS_process_exit: the next sub-batch follows without the
\* inter-batch delay.
MS_process_exit_no_delay(m) ==
    /\ prog = "staff" /\ pc = "gather"
    /\ mpc[m] = "process"
    /\ idx[m] > Len(content_results[m]) \/ should_stop
    /\ mpc' = [mpc EXCEPT ![m] = "loop"]
    /\ batch_i' = [batch_i EXCEPT ![m] = @ + 1]
    /\ status_results' = [status_results EXCEPT ![m] = <<>>]
    /\ valid_urls' = [valid_urls EXCEPT ![m] = <<>>]
    /\ content_results' = [content_results EXCEPT ![m] = <<>>]
    /\ idx' = [idx EXCEPT ![m] = 1]
    /\ UNCHANGED <<varsShared, varsCP, varsFetch, varsRest, should_stop, varsMSio>>

\* process_eid_batch, lines 384-385 and 418: the result loop ends
\* (exhausted or break) and the sub-batch returns.
MS_process_exit(m) ==
    /\ prog = "staff" /\ pc = "gather"
    /\ mpc[m] = "process"
    /\ idx[m] > Len(content_results[m]) \/ should_stop
    /\ mpc' = [mpc EXCEPT ![m] = "sleep"]
    /\ UNCHANGED <<varsShared, varsCP, varsFetch, varsRest, should_stop, varsMSio, batch_i,
                   status_results, valid_urls, content_results, idx>>

\* process_municipality, lines 455-458: the inter-batch delay elapses.
MS_sleep_done(m) ==
    /\ prog = "staff" /\ pc = "gather"
    /\ mpc[m] = "sleep"
    /\ mpc' = [mpc EXCEPT ![m] = "loop"]
    /\ batch_i' = [batch_i EXCEPT ![m] = @ + 1]
    /\ status_results' = [status_results EXCEPT ![m] = <<>>]
    /\ valid_urls' = [valid_urls EXCEPT ![m] = <<>>]
    /\ content_results' = [content_results EXCEPT ![m] = <<>>]
    /\ idx' = [idx EXCEPT ![m] = 1]
    /\ UNCHANGED <<varsShared, varsCP, varsFetch, varsRest, should_stop, varsMSio>>

\* main(), line 559: the gather over all municipalities completes.
MS_main_gathered ==
    /\ prog = "staff" /\ pc = "gather"
    /\ \A m \in Munis : mpc[m] = "done"
    /\ pc' = "finally"
    /\ UNCHANGED <<prog, results_buffer, csv_disk, csv_buf, logged,
                   extractor_calls, emitted, init_failed, varsCP, varsFetch, varsRest, varsMS>>

\* main(), lines 570-595: the final write and the closing of the files.
MS_main_finally ==
    /\ prog = "staff" /\ pc = "finally"
    /\ LET w == IF results_buffer # <<>>
                THEN MS_drain(MS_writer_state, now) ELSE MS_writer_state
       IN  /\ results_buffer' = w.buffer
           /\ csv_disk' = w.disk \o w.buf
           /\ csv_buf' = <<>>
           /\ batch_count' = w.count
           /\ last_flush_time' = w.lft
           /\ last_auto_save' = w.las
           /\ logged' = w.logged
    /\ output_file_handle' = "closed"
    /\ success_file_handle' = "closed"
    /\ not_found_file_handle' = "closed"
    /\ success_disk' = success_disk \o success_buf
    /\ success_buf' = <<>>
    /\ not_found_disk' = not_found_disk \o not_found_buf
    /\ not_found_buf' = <<>>
    /\ pc' = "done"
    /\ UNCHANGED <<prog, extractor_calls, emitted, init_failed, varsCP, varsFetch, varsRest,
                   should_stop, output_writer, now, varsMStask>>

\* signal_handler: SIGINT or SIGTERM arrives.
MS_signal_handler ==
    /\ prog = "staff" /\ pc \in {"prepare", "gather", "finally"}
    /\ ~should_stop
    /\ should_stop' = TRUE
    /\ UNCHANGED <<varsShared, varsCP, varsFetch, varsRest, varsMSio, varsMStask>>

\* time.time() advances.
MS_tick ==
    /\ prog = "staff" /\ pc = "gather"
    /\ now + TickSeconds <= MaxTime
    /\ now' = now + TickSeconds
    /\ UNCHANGED <<varsShared, varsCP, varsFetch, varsRest, should_stop, output_writer,
                   output_file_handle, success_file_handle,
                   not_found_file_handle, success_disk, success_buf,
                   not_found_disk, not_found_buf, batch_count,
                   last_flush_time, last_auto_save, varsMStask>>

MS_Next ==
    \/ MS_main_load
    \/ MS_main_prepare
    \/ \E m \in Munis :
         \/ MS_acquire(m)
         \/ MS_batch_loop(m)
         \/ MS_probes_done(m)
         \/ MS_filter_iter(m)
         \/ MS_filter_exit(m)
         \/ MS_contents_done(m)
         \/ MS_process_iter(m)
         \/ MS_process_exit(m)
         \/ MS_sleep_done(m)
    \/ MS_main_gathered
    \/ MS_main_finally
    \/ MS_signal_handler
    \/ MS_tick

----------------------------------------------------------------------------

(* The fetch coroutines, request by request.                                 *)
(* A site's gather creates one fetch per candidate id; each fetch runs its  *)
(* retry loop.  spc[s] is the position of site s, fetches[s][e] the state   *)
(* of the coroutine of id e: its position pc, the loop variable attempt,    *)
(* the number of requests sent and of politeness sleeps completed, the      *)
(* backoff delays slept (seconds), the last response or exception, what it  *)
(* returned (ret, with the status in last), whether the body was read, and  *)
(* the status its probe returned (scrape_municipal_staff.py).  The sites    *)
(* let at most MaxFailures attempts of a site's gather end with an          *)
(* exception.                                                               *)

MaxFailures == 3                \* attempts of a site that end with an exception
NumFetches == 3                 \* candidate ids of one gather (99, 999 or 15)
CP_MAX_CONCURRENT_REQUESTS == 2 \* MAX_CONCURRENT_REQUESTS (10 in civicplus_scraper.py:36)

REQUEST_RETRY_ATTEMPTS == 3
MAX_RETRIES == 3
RETRY_DELAY == 1

Ids == 1..NumFetches

\* What one request attempt ends with: a response with its status, or an
\* exception (asyncio.TimeoutError, aiohttp.ClientError).
Responses == {"200", "404", "503", "timeout", "client_error"}

IsStatus(r) == r \in {"200", "404", "503"}

IdleFetch ==
    [pc |-> "idle", attempt |-> 0, sent |-> 0, polite |-> 0, delays |-> <<>>,
     last |-> "none", ret |-> "pending", body |-> FALSE, probed |-> "none"]

\* A coroutine that has been created and has not run yet.
NewFetch(at) == [IdleFetch EXCEPT !.pc = at]

\* The fetches of site s that are at one of the positions in at.
FetchesAt(s, at) == {e \in Ids : fetches[s][e].pc \in at}

\* Sites whose gather is outstanding.
ActiveSites == {s \in Munis : spc[s] \notin {"waiting", "done"}}

\* Mutation of CP_sem_free: the permit count is compared off by one.
CP_sem_free_off_by_one(holders) == holders <= CP_MAX_CONCURRENT_REQUESTS

\* fetch_with_retry, line 92: the semaphore has a free permit.
CP_sem_free(holders) == holders < CP_MAX_CONCURRENT_REQUESTS

\* Mutation of CP_classify: a 404 is handled like an exception.
CP_classify_404_retried(r) ==
    IF IsStatus(r) /\ r # "404" THEN "value" ELSE "failed"

\* fetch_with_retry, lines 97-102 and 104-109: what an attempt's end means.
\* 404 returns None, any other status returns (status, html), an exception
\* falls through to the retry logic.
CP_classify(r) ==
    IF r = "404" THEN "not_found"
    ELSE IF IsStatus(r) THEN "value"
    ELSE "failed"

\* fetch_with_retry, line 111: a backoff sleep follows the failed attempt.
CP_sleeps_after(attempt) == attempt < REQUEST_RETRY_ATTEMPTS - 1

\* Mutation of CP_backoff: the exponent counts down.
CP_backoff_shrinking(attempt) == 2 ^ (REQUEST_RETRY_ATTEMPTS - 1 - attempt)

\* Mutation of CP_backoff: a product in place of the power.
CP_backoff_linear(attempt) == 2 * attempt

\* fetch_with_retry, line 112: 2 ** attempt seconds.
CP_backoff(attempt) == 2 ^ attempt

\* Mutation of CP_loop_continues: the loop runs one iteration more.
CP_loop_continues_one_more(attempt) == attempt + 1 <= REQUEST_RETRY_ATTEMPTS

\* fetch_with_retry, line 93: range(REQUEST_RETRY_ATTEMPTS) has a next value.
CP_loop_continues(attempt) == attempt + 1 < REQUEST_RETRY_ATTEMPTS

\* Holders of self.semaphore: inside "async with", not yet returned.
CP_Holders(s) ==
    IF prog = "civicplus" THEN FetchesAt(s, {"delay", "request", "backoff"})
    ELSE {}

\* Mutation of CP_next_iteration: a retry sends its request without the
\* politeness sleep.
CP_next_iteration_no_delay(f) ==
    IF CP_loop_continues(f.attempt)
    THEN [f EXCEPT !.pc = "request", !.attempt = f.attempt + 1,
                   !.sent = f.sent + 1]
    ELSE [f EXCEPT !.pc = "returned", !.ret = "None"]

\* The end of one iteration of the retry loop that did not return: the next
\* iteration, or lines 114-115 after the loop.
CP_next_iteration(f) ==
    IF CP_loop_continues(f.attempt)
    THEN [f EXCEPT !.pc = "delay", !.attempt = f.attempt + 1]
    ELSE [f EXCEPT !.pc = "returned", !.ret = "None"]

\* Mutation of CP_count_exhausted: the increment is missing.
CP_count_exhausted_never(n, left_loop) == n

\* fetch_with_retry, line 114: self.total_errors += 1 once the loop is left.
CP_count_exhausted(n, left_loop) == IF left_loop THEN n + 1 ELSE n

\* scrape_municipality, lines 231-239 (and 246-254): the tasks of a site are
\* created and gathered; main() handles one site at a time.
CP_gather_tasks(s) ==
    /\ prog = "civicplus"
    /\ spc[s] = "waiting" /\ ActiveSites = {}
    /\ \A r \in Munis : r < s => spc[r] = "done"
    /\ spc' = [spc EXCEPT ![s] = "fetching"]
    /\ fetches' = [fetches EXCEPT ![s] = [e \in Ids |-> NewFetch("created")]]
    /\ UNCHANGED <<varsShared, varsCP, varsMS, varsRest, failed_attempts>>

\* fetch_with_retry, lines 92-93: async with self.semaphore, first iteration.
CP_sem_acquire(s, e) ==
    /\ prog = "civicplus"
    /\ fetches[s][e].pc = "created"
    /\ CP_sem_free(Cardinality(CP_Holders(s)))
    /\ fetches' = [fetches EXCEPT ![s][e].pc = "delay"]
    /\ UNCHANGED <<varsShared, varsCP, varsMS, varsRest, spc, failed_attempts>>

\* fetch_with_retry, lines 95-97: the politeness sleep ends and the GET is sent.
CP_politeness_done(s, e) ==
    /\ prog = "civicplus"
    /\ fetches[s][e].pc = "delay"
    /\ fetches' = [fetches EXCEPT ![s][e] =
                      [@ EXCEPT !.pc = "request", !.polite = @ + 1,
                                !.sent = @ + 1]]
    /\ UNCHANGED <<varsShared, varsCP, varsMS, varsRest, spc, failed_attempts>>

\* fetch_with_retry, lines 97-115: the attempt ends with response or exception r.
CP_attempt_done(s, e) ==
    /\ prog = "civicplus"
    /\ fetches[s][e].pc = "request"
    /\ \E r \in Responses :
         LET f == [fetches[s][e] EXCEPT
                      !.last = IF ~IsStatus(r)
                                  /\ CP_loop_continues(fetches[s][e].attempt)
                               THEN "none" ELSE r]
             exhausted == CP_classify(r) = "failed"
                            /\ ~CP_sleeps_after(f.attempt)
                            /\ ~CP_loop_continues(f.attempt)
         IN  /\ fetches' = [fetches EXCEPT ![s][e] =
                   CASE CP_classify(r) = "not_found" ->
                          [f EXCEPT !.pc = "returned", !.ret = "None"]
                     [] CP_classify(r) = "value" ->
                          [f EXCEPT !.pc = "returned", !.ret = "value",
                                    !.body = TRUE]
                     [] OTHER ->
                          IF CP_sleeps_after(f.attempt)
                          THEN [f EXCEPT !.pc = "backoff",
                                   !.delays = Append(@, CP_backoff(f.attempt))]
                          ELSE CP_next_iteration(f)]
             /\ failed_attempts' = [failed_attempts EXCEPT ![s] =
                                      IF IsStatus(r) THEN @ ELSE @ + 1]
             /\ failed_attempts'[s] <= MaxFailures
             /\ total_errors' = CP_count_exhausted(total_errors, exhausted)
    /\ UNCHANGED <<varsShared, shutdown_requested, muni_i, next_id, n_tasks,
                   results, total_processed, varsMS, varsRest, spc>>

\* fetch_with_retry, lines 112-115: the backoff sleep ends.
CP_backoff_done(s, e) ==
    /\ prog = "civicplus"
    /\ fetches[s][e].pc = "backoff"
    /\ fetches' = [fetches EXCEPT ![s][e] = CP_next_iteration(@)]
    /\ total_errors' = CP_count_exhausted(total_errors,
                           ~CP_loop_continues(fetches[s][e].attempt))
    /\ UNCHANGED <<varsShared, shutdown_requested, muni_i, next_id, n_tasks,
                   results, total_processed, varsMS, varsRest, spc, failed_attempts>>

\* Mutation of CP_gather_complete: the first task that ends in failure ends
\* the gather (the exception reaches the awaiter, the other tasks are dropped).
CP_gather_complete_first_failure(s) ==
    \/ FetchesAt(s, {"returned"}) = Ids
    \/ \E e \in Ids : /\ fetches[s][e].pc = "returned"
                       /\ fetches[s][e].last \in {"timeout", "client_error"}

\* scrape_municipality, lines 239 and 254: asyncio.gather(*tasks,
\* return_exceptions=True) completes when every task has completed, whether
\* with a result or with a failure.
CP_gather_complete(s) == FetchesAt(s, {"returned"}) = Ids

\* scrape_municipality, lines 239-242: every task of the gather has returned.
CP_gather_returns(s) ==
    /\ prog = "civicplus"
    /\ spc[s] = "fetching"
    /\ CP_gather_complete(s)
    /\ spc' = [spc EXCEPT ![s] = "done"]
    /\ fetches' = [fetches EXCEPT ![s] = [e \in Ids |-> IdleFetch]]
    /\ failed_attempts' = [failed_attempts EXCEPT ![s] = 0]
    /\ UNCHANGED <<varsShared, varsCP, varsMS, varsRest>>

CP_FetchNext ==
    \E s \in Munis :
       \/ CP_gather_tasks(s)
       \/ CP_gather_returns(s)
       \/ \E e \in Ids :
            \/ CP_sem_acquire(s, e)
            \/ CP_politeness_done(s, e)
            \/ CP_attempt_done(s, e)
            \/ CP_backoff_done(s, e)

\* check_url_exists, lines 88-97: every response returns its status; an
\* exception falls through to the retry logic.
MS_probe_classify(r) == IF IsStatus(r) THEN "value" ELSE "failed"

\* Mutation of MS_content_classify: a status other than 200 is retried.
MS_content_classify_retries_status(r) ==
    IF r = "200" THEN "value" ELSE "failed"

\* fetch_content, lines 114-124: 200 returns the body, any other status
\* returns None, an exception falls through to the retry logic.
MS_content_classify(r) ==
    IF r = "200" THEN "value"
    ELSE IF IsStatus(r) THEN "no_content"
    ELSE "failed"

\* check_url_exists line 99, fetch_content line 126.
MS_sleeps_after(attempt) == attempt < MAX_RETRIES - 1

\* check_url_exists line 100, fetch_content line 127: RETRY_DELAY seconds.
MS_retry_delay(attempt) == RETRY_DELAY

\* check_url_exists line 87, fetch_content line 112: range(MAX_RETRIES) has
\* a next value.
MS_loop_continues(attempt) == attempt + 1 < MAX_RETRIES

\* A coroutine whose first request has been sent: neither function waits
\* before session.head / session.get.
MS_started == [NewFetch("request") EXCEPT !.sent = 1]

\* The end of one iteration of the retry loop that did not return: the next
\* iteration sends its request at once; after the loop, return None.
MS_next_iteration(f) ==
    IF MS_loop_continues(f.attempt)
    THEN [f EXCEPT !.pc = "request", !.attempt = f.attempt + 1,
                   !.sent = f.sent + 1]
    ELSE [f EXCEPT !.pc = "returned", !.ret = "None"]

\* The element of status_results a returned probe contributes.
MS_status_result(f) ==
    IF f.ret = "None" THEN MS_NoStatus
    ELSE IF f.last = "200" THEN 200 ELSE IF f.last = "404" THEN 404 ELSE 503

\* An attempt of either function ends with response or exception r, which
\* the function classifies as class.
MS_after_attempt(f, r, class) ==
    CASE class = "value" ->
           [f EXCEPT !.pc = "returned", !.ret = "value", !.last = r,
                     !.body = (r = "200" /\ f.probed # "none")]
      [] class = "no_content" ->
           [f EXCEPT !.pc = "returned", !.ret = "None", !.last = r]
      [] OTHER ->
           LET g == [f EXCEPT !.last = IF ~IsStatus(r)
                                          /\ MS_loop_continues(f.attempt)
                                       THEN "none" ELSE r]
           IN  IF MS_sleeps_after(f.attempt)
               THEN [g EXCEPT !.pc = "backoff",
                        !.delays = Append(@, MS_retry_delay(f.attempt))]
               ELSE MS_next_iteration(g)

\* main.process_with_semaphore, lines 547-549, and process_eid_batch, lines
\* 351-356: the site takes a permit of municipality_semaphore and gathers
\* the probes of a sub-batch.
MS_site_acquire(s) ==
    /\ prog = "staff"
    /\ spc[s] = "waiting"
    /\ Cardinality(ActiveSites) < MS_MuniPermits
    /\ \A r \in Munis : r < s => spc[r] # "waiting"
    /\ spc' = [spc EXCEPT ![s] = "probing"]
    /\ fetches' = [fetches EXCEPT ![s] = [e \in Ids |-> MS_started]]
    /\ UNCHANGED <<varsShared, varsCP, varsMS, varsRest, failed_attempts>>

\* check_url_exists, lines 88-100, and fetch_content, lines 113-127: an
\* attempt ends.
MS_attempt_done(s, e) ==
    /\ prog = "staff"
    /\ fetches[s][e].pc = "request"
    /\ \E r \in Responses :
         /\ fetches' = [fetches EXCEPT ![s][e] =
                           MS_after_attempt(@, r,
                               IF spc[s] = "probing" THEN MS_probe_classify(r)
                               ELSE MS_content_classify(r))]
         /\ failed_attempts' = [failed_attempts EXCEPT ![s] =
                                  IF IsStatus(r) THEN @ ELSE @ + 1]
         /\ failed_attempts'[s] <= MaxFailures
    /\ UNCHANGED <<varsShared, varsCP, varsMS, varsRest, spc>>

\* check_url_exists, lines 100-102, and fetch_content, lines 127-129: the
\* sleep before the retry ends.
MS_retry_sleep_done(s, e) ==
    /\ prog = "staff"
    /\ fetches[s][e].pc = "backoff"
    /\ fetches' = [fetches EXCEPT ![s][e] = MS_next_iteration(@)]
    /\ UNCHANGED <<varsShared, varsCP, varsMS, varsRest, spc, failed_attempts>>

\* process_eid_batch, lines 356-381: the probes have returned; the ids that
\* pass the filter get a content fetch, the others are done.
MS_gather_contents(s) ==
    /\ prog = "staff"
    /\ spc[s] = "probing"
    /\ FetchesAt(s, {"returned"}) = Ids
    /\ LET valid == {e \in Ids : MS_is_valid(MS_status_result(fetches[s][e]))}
           probed(e) == IF fetches[s][e].ret = "None" THEN "failed"
                        ELSE fetches[s][e].last
       IN  /\ spc' = [spc EXCEPT ![s] = IF valid = {} THEN "done"
                                       ELSE "fetching"]
           /\ fetches' = [fetches EXCEPT ![s] = [e \in Ids |->
                  IF valid = {} THEN IdleFetch
                  ELSE IF e \in valid
                       THEN [MS_started EXCEPT !.probed = probed(e)]
                       ELSE [IdleFetch EXCEPT !.pc = "skipped",
                                              !.probed = probed(e)]]]
           /\ failed_attempts' = [failed_attempts EXCEPT ![s] =
                                     IF valid = {} THEN 0 ELSE @]
    /\ UNCHANGED <<varsShared, varsCP, varsMS, varsRest>>

\* process_eid_batch, lines 381-418, and process_with_semaphore, line 555:
\* the content fetches have returned and the site releases its permit.
MS_site_returns(s) ==
    /\ prog = "staff"
    /\ spc[s] = "fetching"
    /\ FetchesAt(s, {"returned", "skipped"}) = Ids
    /\ spc' = [spc EXCEPT ![s] = "done"]
    /\ fetches' = [fetches EXCEPT ![s] = [e \in Ids |-> IdleFetch]]
    /\ failed_attempts' = [failed_attempts EXCEPT ![s] = 0]
    /\ UNCHANGED <<varsShared, varsCP, varsMS, varsRest>>

MS_FetchNext ==
    \E s \in Munis :
       \/ MS_site_acquire(s)
       \/ MS_gather_contents(s)
       \/ MS_site_returns(s)
       \/ \E e \in Ids :
            \/ MS_attempt_done(s, e)
            \/ MS_retry_sleep_done(s, e)

----------------------------------------------------------------------------
(* old stuff/government_website_finder.py: SmartRateLimiter                 *)

\* __init__, lines 24-29.  The factors 1.2 and 0.7 are kept in tenths;
\* int(limit * 1.2) and int(limit * 0.7) in double arithmetic equal the
\* integer quotients below for every limit up to 89.
initial_concurrent_limit == 15
min_concurrent == 3
max_concurrent == 50
speedup_tenths == 12
backoff_tenths == 7
\* can_increase_concurrency and should_decrease_concurrency: the thresholds.
SUCCESS_THRESHOLD == 5
FAILURE_THRESHOLD == 2

MaxCount == 3           \* counts 1..MaxCount of one recorded batch (up to 50, line 340)
MaxSuccesses == 8       \* consecutive_successes stops growing here

Max(a, b) == IF a >= b THEN a ELSE b

\* The rate limiter object.
rate_limiter ==
    [concurrent_limit |-> concurrent_limit,
     consecutive_successes |-> consecutive_successes,
     consecutive_failures |-> consecutive_failures]

\* Mutation of can_increase_concurrency: the threshold must be exceeded.
can_increase_concurrency_strict(rl) ==
    /\ rl.consecutive_successes > SUCCESS_THRESHOLD
    /\ rl.concurrent_limit < max_concurrent

\* can_increase_concurrency, lines 35-38.
can_increase_concurrency(rl) ==
    /\ rl.consecutive_successes >= SUCCESS_THRESHOLD
    /\ rl.concurrent_limit < max_concurrent

\* Mutation of should_decrease_concurrency: the threshold must be exceeded.
should_decrease_concurrency_strict(rl) ==
    rl.consecutive_failures > FAILURE_THRESHOLD

\* should_decrease_concurrency, lines 40-42.
should_decrease_concurrency(rl) ==
    rl.consecutive_failures >= FAILURE_THRESHOLD

\* Mutation of speedup: the product is not clamped to max_concurrent.
speedup_unclamped(limit) == (limit * speedup_tenths) \div 10

\* record_success_batch, lines 52-53:
\* min(max_concurrent, int(concurrent_limit * speedup_factor)).
speedup(limit) == Min(max_concurrent, (limit * speedup_tenths) \div 10)

\* record_rate_limit_batch, lines 66-67:
\* max(min_concurrent, int(concurrent_limit * backoff_factor)).
backoff(limit) == Max(min_concurrent, (limit * backoff_tenths) \div 10)

\* Mutation of after_success_batch: the failure count is left as it is.
after_success_batch_keeps_failures(rl, batch_size) ==
    LET r1 == [rl EXCEPT !.consecutive_successes = @ + batch_size]
    IN  IF can_increase_concurrency(r1)
        THEN [r1 EXCEPT !.concurrent_limit = speedup(@),
                        !.consecutive_successes = 0]
        ELSE r1

\* record_success_batch, lines 44-55, on the limiter rl.  The statistics
\* total_requests and rate_limited_requests are read by no decision and are
\* left out.
after_success_batch(rl, batch_size) ==
    LET r1 == [rl EXCEPT !.consecutive_successes = @ + batch_size,
                         !.consecutive_failures = 0]
    IN  IF can_increase_concurrency(r1)
        THEN [r1 EXCEPT !.concurrent_limit = speedup(@),
                        !.consecutive_successes = 0]
        ELSE r1

\* record_rate_limit_batch, lines 57-69, on the limiter rl.
after_rate_limit_batch(rl, failed_count) ==
    LET r1 == [rl EXCEPT !.consecutive_failures = @ + failed_count,
                         !.consecutive_successes = 0]
    IN  IF should_decrease_concurrency(r1)
        THEN [r1 EXCEPT !.concurrent_limit = backoff(@),
                        !.consecutive_failures = 0]
        ELSE r1

\* The limiter becomes rl; the call is noted.
set_rate_limiter(rl, op, n) ==
    /\ concurrent_limit' = rl.concurrent_limit
    /\ consecutive_successes' = rl.consecutive_successes
    /\ consecutive_failures' = rl.consecutive_failures
    /\ last_call' = [op |-> op, count |-> n, seq |-> 1 - last_call.seq]

\* process_batch_parallel, lines 335-336: rate_limiter.record_success_batch.
record_success_batch(batch_size) ==
    /\ consecutive_successes + batch_size <= MaxSuccesses
    /\ set_rate_limiter(after_success_batch(rate_limiter, batch_size),
                        "success", batch_size)
    /\ UNCHANGED <<varsShared, varsCP, varsMS, varsFetch, varsRerun, varsEmail,
                   varsBatches, varsPlaces>>

\* process_batch_parallel, lines 333-334: rate_limiter.record_rate_limit_batch.
record_rate_limit_batch(failed_count) ==
    /\ set_rate_limiter(after_rate_limit_batch(rate_limiter, failed_count),
                        "rate_limit", failed_count)
    /\ UNCHANGED <<varsShared, varsCP, varsMS, varsFetch, varsRerun, varsEmail,
                   varsBatches, varsPlaces>>

----------------------------------------------------------------------------
(* Two runs of a script against one site.  Each run is a fresh process with *)
(* a fresh store; the site answers every id in the second run as it did in  *)
(* the first; no signal arrives and no store write fails.                   *)

\* What a page of the site answers to the HEAD probe and to the GET of
\* scrape_municipal_staff.py.  The GET is sent only after a 200 probe, so
\* for the other pages one content stands for all.
StaffPages ==
    {pg \in [probe : MS_ProbeOutcomes, content : MS_ContentOutcomes] :
        pg.probe = 200 \/ pg.content = "s404"}

\* The sites: an answer for every candidate id.
SitePages ==
    IF prog = "civicplus"
    THEN [dept : [1..MaxDid -> CP_Outcomes], staff : [1..MaxEid -> CP_Outcomes]]
    ELSE [1..MaxEid -> StaffPages]

\* What the runs leave alone.
RerunFrame ==
    UNCHANGED <<prog, pc, extractor_calls, emitted, init_failed,
                shutdown_requested, muni_i, next_id, n_tasks, results,
                should_stop, not_found_buf, varsMStask, varsFetch, varsFinder,
                varsEmail, varsBatches, varsPlaces>>

\* fetch_with_retry, line 114, over one gather of n tasks with outcomes f:
\* the fetches that count an error.
CP_errors_counted(f, n) == Cardinality({t \in 1..n : f[t] = "exhausted"})

\* main() up to the first request: a fresh process opens fresh output files
\* (civicplus_scraper.py:365; scrape_municipal_staff.py:496-519).
Rerun_begin ==
    /\ run_pc = "idle" /\ run_no < 2
    /\ run_no' = run_no + 1
    /\ IF run_no = 0 THEN site_pages' \in SitePages ELSE UNCHANGED site_pages
    /\ results_buffer' = <<>>
    /\ csv_buf' = <<>>
    /\ logged' = <<>>
    /\ success_buf' = <<>>
    /\ batch_count' = -1
    /\ last_flush_time' = -1
    /\ last_auto_save' = -1
    /\ now' = 0
    /\ IF prog = "civicplus"
       THEN /\ csv_disk' = CP_write_results_batch(<<>>, <<>>, TRUE, TRUE)
            /\ UNCHANGED <<output_writer, output_file_handle,
                           success_file_handle, not_found_file_handle,
                           success_disk, not_found_disk>>
       ELSE /\ csv_disk' = <<HeaderRow>>
            /\ output_writer' = "set"
            /\ output_file_handle' = "open"
            /\ success_file_handle' = "open"
            /\ not_found_file_handle' = "open"
            /\ success_disk' = <<HeaderRow>>
            /\ not_found_disk' = <<HeaderRow>>
    /\ total_processed' = 0
    /\ total_errors' = 0
    /\ eid_i' = 1
    /\ run_pc' = "run"
    /\ UNCHANGED first_run
    /\ RerunFrame

\* civicplus_scraper.py, scrape_municipality (lines 220-259) and main, lines
\* 385-391: the pages of the site are gathered, the buffer is extended and
\* written when it has reached the batch size.
Rerun_scrape_municipality ==
    /\ prog = "civicplus" /\ run_pc = "run"
    /\ LET got == CP_collect(site_pages.dept, "dept", MaxDid)
                     \o CP_collect(site_pages.staff, "staff", MaxEid)
           buffer == results_buffer \o got
       IN  IF CP_flush_due(Len(buffer))
           THEN /\ csv_disk' = CP_write_results_batch(csv_disk, buffer, FALSE, TRUE)
                /\ logged' = logged \o CP_logged_by_write(buffer, TRUE)
                /\ results_buffer' = <<>>
           ELSE /\ results_buffer' = buffer
                /\ UNCHANGED <<csv_disk, logged>>
    /\ total_errors' = total_errors + CP_errors_counted(site_pages.dept, MaxDid)
                                    + CP_errors_counted(site_pages.staff, MaxEid)
    /\ total_processed' = total_processed + 1
    /\ run_pc' = "final"
    /\ UNCHANGED <<csv_buf, varsMSio, site_pages, run_no, eid_i, first_run>>
    /\ RerunFrame

\* scrape_municipal_staff.py, process_eid_batch (lines 338-418) for one id:
\* probe, filter, content, extraction, success log, append, size-triggered
\* write and auto-save check.
Rerun_process_eid ==
    /\ prog = "staff" /\ run_pc = "run"
    /\ LET pg == site_pages[eid_i]
           content == MS_fetch_content(pg.content)
           staff_info == MS_extract_staff_info(content)
           record == [kind |-> "staff", ident |-> staff_info.person,
                      fetch |-> pg.content]
           w0 == MS_writer_state
           w1 == IF MS_emits(staff_info) THEN MS_append(w0, record, now) ELSE w0
           w2 == MS_check_auto_save(w1, now)
           lg == MS_log_successful_eid([buf |-> success_buf, disk |-> success_disk], record)
       IN  IF ~MS_is_valid(pg.probe) \/ content = MS_NoContent
           THEN UNCHANGED <<results_buffer, csv_buf, csv_disk, batch_count,
                            last_flush_time, last_auto_save, logged,
                            success_buf, success_disk>>
           ELSE /\ results_buffer' = w2.buffer
                /\ csv_buf' = w2.buf
                /\ csv_disk' = w2.disk
                /\ batch_count' = w2.count
                /\ last_flush_time' = w2.lft
                /\ last_auto_save' = w2.las
                /\ logged' = w2.logged
                /\ IF MS_emits(staff_info)
                   THEN /\ success_buf' = lg.buf
                        /\ success_disk' = lg.disk
                   ELSE UNCHANGED <<success_buf, success_disk>>
    /\ eid_i' = eid_i + 1
    /\ run_pc' = IF eid_i = MaxEid THEN "final" ELSE "run"
    /\ UNCHANGED <<output_writer, output_file_handle, success_file_handle,
                   not_found_file_handle, not_found_disk, now, site_pages,
                   run_no, first_run, total_processed, total_errors>>
    /\ RerunFrame

\* Time passes between two ids of a run of scrape_municipal_staff.py.
Rerun_tick ==
    /\ prog = "staff" /\ run_pc = "run"
    /\ now + TickSeconds <= MaxTime
    /\ now' = now + TickSeconds
    /\ UNCHANGED <<results_buffer, csv_disk, csv_buf, logged, output_writer,
                   output_file_handle, success_file_handle,
                   not_found_file_handle, success_disk, success_buf,
                   not_found_disk, batch_count, last_flush_time,
                   last_auto_save, varsRerun, total_processed, total_errors>>
    /\ RerunFrame

\* The end of main(): the rest of the buffer is written and the files are
\* closed (civicplus_scraper.py:406-409; scrape_municipal_staff.py:570-595).
Rerun_end ==
    /\ run_pc = "final"
    /\ IF prog = "civicplus"
       THEN /\ IF results_buffer # <<>>
               THEN /\ csv_disk' = CP_write_results_batch(csv_disk, results_buffer,
                                                          FALSE, TRUE)
                    /\ logged' = logged \o CP_logged_by_write(results_buffer, TRUE)
                    /\ results_buffer' = <<>>
               ELSE UNCHANGED <<csv_disk, logged, results_buffer>>
            /\ UNCHANGED <<csv_buf, varsMSio>>
       ELSE /\ LET w == IF results_buffer # <<>>
                        THEN MS_drain(MS_writer_state, now) ELSE MS_writer_state
               IN  /\ results_buffer' = w.buffer
                   /\ csv_disk' = w.disk \o w.buf
                   /\ csv_buf' = <<>>
                   /\ batch_count' = w.count
                   /\ last_flush_time' = w.lft
                   /\ last_auto_save' = w.las
                   /\ logged' = w.logged
            /\ output_file_handle' = "closed"
            /\ success_file_handle' = "closed"
            /\ not_found_file_handle' = "closed"
            /\ success_disk' = success_disk \o success_buf
            /\ success_buf' = <<>>
            /\ UNCHANGED <<output_writer, not_found_disk, now>>
    /\ first_run' = IF run_no = 1
                    THEN [records |-> DataRows(csv_disk'),
                          written_at |-> last_auto_save']
                    ELSE first_run
    /\ run_pc' = IF run_no = 1 THEN "idle" ELSE "done"
    /\ UNCHANGED <<site_pages, run_no, eid_i, total_processed, total_errors>>
    /\ RerunFrame

----------------------------------------------------------------------------
(* The email of a staff page: extract_staff_info, lines 212-229, and        *)
(* parse_staff_page, lines 198-205.  A page is the sequence of its anchors  *)
(* with an href, in document order, and what its scripts hold.              *)

MaxAnchors == 3         \* anchors of a page

\* An anchor: inside the first div.BioText or not, the scheme of its href
\* (href.startswith('mailto:')) and what follows the scheme (href[7:]).
Anchors ==
    [in_bio : BOOLEAN, scheme : {"mailto"}, rest : {"a", "b"}]
        \cup [in_bio : BOOLEAN, scheme : {"http"}, rest : {"/"}]

\* The scripts of a page: none; the assignments of wsd and xsd alone; the
\* assignments and a document.write whose literal holds "mailto:".
Scripts == {"none", "vars", "vars_and_write"}

\* The anchors inside the block are next to one another.
BioContiguous(a) ==
    \A i, j, k \in 1..Len(a) :
        i < j /\ j < k /\ a[i].in_bio /\ a[k].in_bio => a[j].in_bio

StaffHtml ==
    {pg \in [anchors : UNION {[1..n -> Anchors] : n \in 0..MaxAnchors},
             script : Scripts] : BioContiguous(pg.anchors)}

\* The first element of a that satisfies Test, or nothing.
FirstWhere(a, Test(_)) ==
    LET hits == SelectSeq(a, Test) IN IF hits = <<>> THEN <<>> ELSE <<hits[1]>>

InBio(x) == x.in_bio
IsMailto(x) == x.scheme = "mailto"
IsBioMailto(x) == x.in_bio /\ x.scheme = "mailto"

\* extract_email_from_javascript, lines 132-162: wsd@xsd when both
\* assignments are found.
extract_email_from_javascript(pg) ==
    IF pg.script \in {"vars", "vars_and_write"} THEN "wsd@xsd" ELSE ""

\* 'mailto:' in html_content.lower(), line 228.
contains_mailto(pg) ==
    \/ \E i \in 1..Len(pg.anchors) : IsMailto(pg.anchors[i])
    \/ pg.script = "vars_and_write"

\* extract_staff_info, lines 212-229.
MS_extract_email(pg) ==
    LET email_link == FirstWhere(pg.anchors, InBio)
        in_block == IF email_link # <<>> /\ IsMailto(email_link[1])
                    THEN email_link[1].rest ELSE ""
        on_page == FirstWhere(pg.anchors, IsMailto)
        anywhere == IF on_page # <<>> THEN on_page[1].rest ELSE ""
    IN  IF in_block # "" THEN in_block
        ELSE IF anywhere # "" THEN anywhere
        ELSE IF contains_mailto(pg) THEN extract_email_from_javascript(pg)
        ELSE ""

\* parse_staff_page, lines 198-205: the first mailto anchor of the block.
CP_extract_email(pg) ==
    LET link == FirstWhere(pg.anchors, IsBioMailto)
    IN  IF link # <<>> THEN link[1].rest ELSE ""

\* A page arrives at the extractor.
Email_load ==
    /\ email_pc = "idle"
    /\ html_content' \in StaffHtml
    /\ email_pc' = "loaded"
    /\ UNCHANGED <<varsShared, varsCP, varsMS, varsFetch, varsFinder, varsRerun,
                   varsBatches, varsPlaces, email>>

\* extract_staff_info / parse_staff_page: the email of the result.
Email_extract ==
    /\ email_pc = "loaded"
    /\ email' = IF prog = "staff" THEN MS_extract_email(html_content)
                ELSE CP_extract_email(html_content)
    /\ email_pc' = "extracted"
    /\ UNCHANGED <<varsShared, varsCP, varsMS, varsFetch, varsFinder, varsRerun,
                   varsBatches, varsPlaces, html_content>>

----------------------------------------------------------------------------
(* The sub-batches of one site: process_municipality, lines 446-455.        *)

MaxLastEid == 8         \* last id of the declared range (999)
MaxBatchSize == 4       \* EID_BATCH_SIZE (15 in scrape_municipal_staff.py:37)

\* range(a, b) as the sequence of its elements.
PyRange(a, b) == [k \in 1..(IF b > a THEN b - a ELSE 0) |-> a + k - 1]

\* range(start, stop, step) as the sequence of its elements.
PyRangeStep(start, stop, step) ==
    [k \in 1..(IF stop > start THEN (stop - start + step - 1) \div step ELSE 0)
        |-> start + (k - 1) * step]

\* Mutation of eid_batch_range: the range is not clipped at the stop.
eid_batch_range_unclipped(i, size, stop) == PyRange(i, i + size)

\* Line 447: range(i, min(i + EID_BATCH_SIZE, 1000)).
eid_batch_range(i, size, stop) == PyRange(i, Min(i + size, stop))

\* Line 447: [range(i, min(i + EID_BATCH_SIZE, 1000))
\*            for i in range(1, 1000, EID_BATCH_SIZE)], 1000 being last + 1.
build_eid_batches(last, size) ==
    LET starts == PyRangeStep(1, last + 1, size)
    IN  [j \in 1..Len(starts) |-> eid_batch_range(starts[j], size, last + 1)]

\* process_municipality, line 447: the list of sub-batches is built.
Batches_build ==
    /\ prog = "staff"
    /\ batch_range_i = 0
    /\ \E last \in 1..MaxLastEid, size \in 1..MaxBatchSize :
         /\ eid_range' = [last |-> last, size |-> size]
         /\ eid_batches' = build_eid_batches(last, size)
    /\ batch_range_i' = 1
    /\ UNCHANGED <<varsShared, varsCP, varsMS, varsFetch, varsFinder, varsRerun,
                   varsEmail, varsPlaces, probed_eids>>

\* process_municipality, lines 449-454, and process_eid_batch, lines 351-352:
\* the next element of eid_batches is handed to process_eid_batch, which
\* creates the urls of its ids in order.
Batches_process ==
    /\ prog = "staff"
    /\ batch_range_i >= 1 /\ batch_range_i <= Len(eid_batches)
    /\ probed_eids' = probed_eids \o eid_batches[batch_range_i]
    /\ batch_range_i' = batch_range_i + 1
    /\ UNCHANGED <<varsShared, varsCP, varsMS, varsFetch, varsFinder, varsRerun,
                   varsEmail, varsPlaces, eid_range, eid_batches>>

----------------------------------------------------------------------------
(* old stuff/government_website_finder.py: process_all_places_parallel and  *)
(* process_batch_parallel.  A place is its position in the input list; the  *)
(* url of a government website that was found is "url".                     *)

MaxPlaces == 6          \* places to process (up to 10000, line 482)
finder_batch_size == 2   \* batch_size (50, line 490)

\* What the search for one place ends with: status 429, no usable answer
\* (another status, an exception inside search_with_serper, no results),
\* results with or without a government website among the first ten, or an
\* exception that leaves the task.
SearchOutcomes == {"rate_limited", "failed", "gov", "nogov", "raised"}

\* find_government_website_parallel, lines 255-285, inside gather with
\* return_exceptions=True: the tuple returned, or the exception.
find_government_website_parallel(place, o) ==
    IF o = "raised" THEN [exc |-> TRUE, place |-> place, website |-> ""]
    ELSE [exc |-> FALSE, place |-> place,
          website |-> IF o = "rate_limited" THEN "rate_limited"
                      ELSE IF o = "gov" THEN "url" ELSE "none"]

\* Line 363: places[i:i + batch_size] for i in range(0, len(places), batch_size).
batches(pl) ==
    LET starts == PyRangeStep(0, Len(pl), finder_batch_size)
    IN  [j \in 1..Len(starts) |->
            SubSeq(pl, starts[j] + 1, Min(starts[j] + finder_batch_size, Len(pl)))]

\* Mutation of final_result: the marker of a rate-limited request is kept.
final_result_keeps_marker(place, result) ==
    IF result.exc THEN [place |-> place, website |-> "none"]
    ELSE [place |-> result.place, website |-> result.website]

\* process_batch_parallel, lines 317-328: the entry of final_results for one
\* element of results.
final_result(place, result) ==
    IF result.exc THEN [place |-> place, website |-> "none"]
    ELSE IF result.website = "rate_limited"
    THEN [place |-> result.place, website |-> "none"]
    ELSE [place |-> result.place, website |-> result.website]

\* process_batch_parallel, lines 313-330: final_results and the two counts.
final_results(batch, rs) ==
    [i \in 1..Len(rs) |-> final_result(batch[i], rs[i])]

rate_limited_count(rs) ==
    Cardinality({i \in 1..Len(rs) : ~rs[i].exc /\ rs[i].website = "rate_limited"})

success_count(rs) ==
    Cardinality({i \in 1..Len(rs) :
                    ~rs[i].exc /\ rs[i].website \notin {"rate_limited", "none"}})

\* process_batch_parallel, lines 332-336: the limiter after the batch.
limiter_after_batch(rl, rs) ==
    LET r1 == IF rate_limited_count(rs) > 0
              THEN after_rate_limit_batch(rl, rate_limited_count(rs)) ELSE rl
    IN  IF success_count(rs) > 0
        THEN after_success_batch(r1, success_count(rs)) ELSE r1

\* The header row of websites.csv and a row left by an earlier run.
FinderHeader == [place |-> 0, website |-> "website"]
EarlierRow == [place |-> 0, website |-> "none"]

\* write_results_to_csv, lines 423-439: the rows of the file after the call.
write_results_to_csv(file, rs, write_header, append_mode) ==
    IF append_mode THEN file \o rs
    ELSE (IF write_header THEN <<FinderHeader>> ELSE <<>>) \o rs

\* main, lines 470-493, and process_all_places_parallel, lines 353-363: the
\* places still to process are loaded and cut into batches.
Finder_start ==
    /\ fpc = "idle"
    /\ \E n \in 1..MaxPlaces : places' = PyRange(1, n + 1)
    /\ \E ex \in {"empty", "nonempty"} :
         /\ existing_results' = ex
         /\ output_file' = IF ex = "nonempty"
                           THEN <<FinderHeader, EarlierRow>> ELSE <<>>
    /\ batch_idx' = 0
    /\ fpc' = "gather"
    /\ UNCHANGED <<varsShared, varsCP, varsMS, varsFetch, varsFinder, varsRerun,
                   varsEmail, varsBatches, gather_results, batch_results,
                   all_results>>

\* process_batch_parallel, lines 308-309: the gather over the tasks of the
\* batch completes.
Finder_gather_done ==
    /\ fpc = "gather"
    /\ LET batch == batches(places)[batch_idx + 1]
       IN  \E o \in [1..Len(batch) -> SearchOutcomes] :
              gather_results' =
                  [i \in 1..Len(batch) |->
                      find_government_website_parallel(batch[i], o[i])]
    /\ fpc' = "collect"
    /\ UNCHANGED <<varsShared, varsCP, varsMS, varsFetch, varsFinder, varsRerun,
                   varsEmail, varsBatches, places, existing_results, batch_idx,
                   batch_results, all_results, output_file>>

\* process_batch_parallel, lines 311-338, and process_all_places_parallel,
\* lines 374-382: the results are collected, the limiter is updated, the
\* batch returns and its results are written.
Finder_batch_return ==
    /\ fpc = "collect"
    /\ LET batch == batches(places)[batch_idx + 1]
           final == final_results(batch, gather_results)
           rl == limiter_after_batch(rate_limiter, gather_results)
           use_append == existing_results = "nonempty"
           called == IF success_count(gather_results) > 0
                     THEN [op |-> "success",
                           count |-> success_count(gather_results),
                           seq |-> 1 - last_call.seq]
                     ELSE IF rate_limited_count(gather_results) > 0
                     THEN [op |-> "rate_limit",
                           count |-> rate_limited_count(gather_results),
                           seq |-> 1 - last_call.seq]
                     ELSE last_call
       IN  /\ batch_results' = final
           /\ all_results' = all_results \o final
           /\ concurrent_limit' = rl.concurrent_limit
           /\ consecutive_successes' = rl.consecutive_successes
           /\ consecutive_failures' = rl.consecutive_failures
           /\ last_call' = called
           /\ output_file' =
                  IF use_append
                  THEN write_results_to_csv(output_file, final, FALSE, TRUE)
                  ELSE write_results_to_csv(output_file, all_results', TRUE, FALSE)
           /\ existing_results' = IF use_append THEN existing_results ELSE "empty"
    /\ batch_idx' = batch_idx + 1
    /\ fpc' = IF batch_idx + 1 < Len(batches(places)) THEN "gather" ELSE "done"
    /\ UNCHANGED <<varsShared, varsCP, varsMS, varsFetch, varsRerun, varsEmail,
                   varsBatches, places, gather_results>>

----------------------------------------------------------------------------

Init ==
    /\ prog \in {"civicplus", "staff"}
    /\ pc = "start"
    /\ results_buffer = <<>>
    /\ csv_disk = <<>>
    /\ csv_buf = <<>>
    /\ logged = <<>>
    /\ extractor_calls = {}
    /\ emitted = 0
    /\ init_failed = FALSE
    /\ shutdown_requested = FALSE
    /\ muni_i = 1
    /\ next_id = 1
    /\ n_tasks = 0
    /\ results = <<>>
    /\ total_processed = 0
    /\ total_errors = 0
    /\ should_stop = FALSE
    /\ output_writer = "none"
    /\ output_file_handle = "none"
    /\ success_file_handle = "none"
    /\ not_found_file_handle = "none"
    /\ success_disk = <<>>
    /\ success_buf = <<>>
    /\ not_found_disk = <<>>
    /\ not_found_buf = <<>>
    /\ batch_count = -1
    /\ last_flush_time = -1
    /\ last_auto_save = -1
    /\ now = 0
    /\ mpc = [m \in Munis |-> "created"]
    /\ batch_i = [m \in Munis |-> 1]
    /\ status_results = [m \in Munis |-> <<>>]
    /\ valid_urls = [m \in Munis |-> <<>>]
    /\ content_results = [m \in Munis |-> <<>>]
    /\ idx = [m \in Munis |-> 1]
    /\ spc = [s \in Munis |-> "waiting"]
    /\ fetches = [s \in Munis |-> [e \in Ids |-> IdleFetch]]
    /\ failed_attempts = [s \in Munis |-> 0]
    /\ concurrent_limit = initial_concurrent_limit
    /\ consecutive_successes = 0
    /\ consecutive_failures = 0
    /\ last_call = [op |-> "none", count |-> 0, seq |-> 0]
    /\ site_pages = <<>>
    /\ run_no = 0
    /\ run_pc = "idle"
    /\ eid_i = 1
    /\ first_run = [records |-> <<>>, written_at |-> -1]
    /\ html_content = [anchors |-> <<>>, script |-> "none"]
    /\ email_pc = "idle"
    /\ email = ""
    /\ eid_range = [last |-> 0, size |-> 1]
    /\ eid_batches = <<>>
    /\ batch_range_i = 0
    /\ probed_eids = <<>>
    /\ places = <<>>
    /\ existing_results = "empty"
    /\ batch_idx = 0
    /\ fpc = "idle"
    /\ gather_results = <<>>
    /\ batch_results = <<>>
    /\ all_results = <<>>
    /\ output_file = <<>>

Next == CP_Next \/ MS_Next

Spec == Init /\ [][Next]_vars

\* The runs of the fetch coroutines alone.
FetchNext == CP_FetchNext \/ MS_FetchNext

FetchSpec == Init /\ [][FetchNext]_vars

\* The calls made on the rate limiter alone.
LimiterNext ==
    \E n \in 1..MaxCount :
       \/ record_rate_limit_batch(n)
       \/ record_success_batch(n)

LimiterSpec == Init /\ [][LimiterNext]_vars

\* Two runs of one script, one after the other, against one unchanged site.
RerunNext ==
    \/ Rerun_begin
    \/ Rerun_scrape_municipality
    \/ Rerun_process_eid
    \/ Rerun_tick
    \/ Rerun_end

RerunSpec == Init /\ [][RerunNext]_vars

\* The extraction of the email of one staff page.
EmailNext == Email_load \/ Email_extract

EmailSpec == Init /\ [][EmailNext]_vars

\* The loop of process_municipality over the sub-batches of one site.
BatchesNext == Batches_build \/ Batches_process

BatchesSpec == Init /\ [][BatchesNext]_vars

\* A run of process_all_places_parallel.
FinderNext == Finder_start \/ Finder_gather_done \/ Finder_batch_return

FinderSpec == Init /\ [][FinderNext]_vars

----------------------------------------------------------------------------
(* Properties                                                               *)

\* Every row that has left the extractor: buffered, written or durable.
AllRows == results \o results_buffer \o csv_buf \o csv_disk

\* Requests are outstanding: a gather of fetches, probes or content fetches
\* has been started and has not completed.
RequestsInFlight ==
    \/ prog = "civicplus" /\ pc \in {"dept_gather", "staff_gather"}
    \/ prog = "staff" /\ \E m \in Munis : mpc[m] \in {"probing", "fetching"}

\* C1: an id whose fetch or existence probe ended with HTTP 404 never reaches
\* the extractor and never yields a record: the extractor is invoked only on
\* ids whose statuses are not 404, and no row stems from a 404 outcome.
C1_NotFoundNeverExtracted ==
    /\ 404 \notin extractor_calls
    /\ \A r \in Range(AllRows) : r.fetch # "s404"

\* C1 witness: a sub-batch whose probe returned 404 has passed the filter
\* loop without a break and goes on without a content request.
C1_Witness ==
    /\ prog = "staff"
    /\ \E m \in Munis :
         /\ mpc[m] = "sleep"
         /\ ~should_stop
         /\ 404 \in Range(status_results[m])
         /\ valid_urls[m] = <<>>

\* C2: no record with an empty identity field is in the results buffer or in
\* the output store.
C2_NoEmptyIdentity ==
    \A r \in Range(DataRows(results_buffer \o csv_buf \o csv_disk)) : r.ident # ""

\* C3: every record of a batch write that was logged as completed is in the
\* durable output store, so a kill at this point loses none of them.
C3_LoggedIsDurable == IsPrefix(logged, DataRows(csv_disk))

\* C3 as amended: the records logged as written are exactly the durable ones
\* followed by those still in the file handle's buffer, and that buffer is
\* empty once the file is closed: a kill loses, of the logged records, only
\* those written since the last forced flush.
C3_FlushedIsDurable ==
    /\ logged = DataRows(csv_disk) \o csv_buf
    /\ output_file_handle = "closed" => csv_buf = <<>>

\* C3 witness: a forced flush has made logged batches durable while the run
\* goes on.
C3_Witness ==
    /\ prog = "staff" /\ pc = "gather"
    /\ logged # <<>>
    /\ csv_buf = <<>>
    /\ DataRows(csv_disk) = logged

\* The output store has been initialized and the run goes on.
OutputInitialized ==
    /\ ~init_failed
    /\ \/ prog = "civicplus" /\ pc \notin {"start", "init_output"}
       \/ prog = "staff" /\ output_file_handle # "none"

\* C4: once the output store is initialized it holds exactly one header row,
\* which precedes every data row.
C4_OneHeaderFirst ==
    OutputInitialized =>
        LET rows == csv_disk \o csv_buf
        IN  /\ HeaderCount(rows) = 1
            /\ Head(rows) = HeaderRow

\* The run has ended after doing its work (not by an early exit).
RunEnded ==
    /\ pc = "done"
    /\ \/ prog = "civicplus" /\ muni_i > 1
       \/ prog = "civicplus" /\ shutdown_requested
       \/ prog = "staff" /\ output_file_handle = "closed"

\* C5: when the run ends the buffer is empty and every record that was put
\* in a results list is in the output store.
C5_EndFlushed ==
    RunEnded =>
        /\ results_buffer = <<>>
        /\ Len(DataRows(csv_disk)) = emitted

\* C6: once the shutdown flag is set no site, no sub-batch and no request
\* task is started.
C6_NoNewWorkAfterShutdown ==
    [][ /\ (prog = "civicplus" /\ shutdown_requested) =>
              /\ pc' \in {"dept_create", "staff_create"} => pc' = pc
              /\ n_tasks' <= n_tasks
        /\ (prog = "staff" /\ should_stop) =>
              \A m \in Munis : mpc'[m] = "probing" => mpc[m] = "probing"
      ]_vars

\* C6 witness: the flag is set and a site has left its loop with sub-batches
\* that were never started.
C6_Witness ==
    /\ prog = "staff" /\ should_stop
    /\ \E m \in Munis : mpc[m] = "done" /\ batch_i[m] <= MS_NumBatches

\* C7: when a sub-batch returns, every page that answered 200 with a
\* non-empty identity has been processed into a record.
C7_InFlightProcessed ==
    \A m \in Munis :
        mpc[m] = "sleep" =>
            \A k \in 1..Len(content_results[m]) :
                content_results[m][k] = "named" => k < idx[m]

\* C8: the buffer never holds more records than the flush threshold.
C8_BufferWithinThreshold ==
    Len(results_buffer) <= (IF prog = "civicplus" THEN CP_BATCH_SIZE ELSE MS_BATCH_SIZE)

\* C9: every write to the output store or to a side-log has been flushed when
\* the write operation returns.
C9_EveryWriteFlushed ==
    /\ csv_buf = <<>>
    /\ success_buf = <<>>
    /\ not_found_buf = <<>>

\* C9 as amended: side-log entries and the header rows are always flushed;
\* rows of a batch write stay in the handle's buffer only while fewer than
\* FLUSH_EVERY batch writes were made since the count last reached a
\* multiple of it and the last write came at most FLUSH_AFTER seconds after
\* the last forced flush.
C9_PeriodicFlush ==
    /\ success_buf = <<>>
    /\ not_found_buf = <<>>
    /\ Len(success_disk) = (IF success_file_handle = "none" THEN 0 ELSE 1 + emitted)
    /\ (prog = "staff" /\ output_file_handle # "none") => Head(csv_disk) = HeaderRow
    /\ csv_buf # <<>> =>
          /\ batch_count % FLUSH_EVERY # 0
          /\ last_auto_save - last_flush_time <= FLUSH_AFTER

\* C9 witness: a batch write came more than FLUSH_AFTER seconds after the
\* last flush and was flushed; success entries are on disk.
C9_Witness ==
    /\ prog = "staff" /\ pc = "gather"
    /\ batch_count % FLUSH_EVERY # 0
    /\ batch_count > 1
    /\ last_flush_time = last_auto_save
    /\ csv_buf = <<>>
    /\ Len(success_disk) > 1

\* C10: when the output store could not be initialized no request is issued.
C10_InitFailureStopsRun == init_failed => ~RequestsInFlight

----------------------------------------------------------------------------
(* Properties of the fetch coroutines (FetchSpec)                           *)

\* The fetches of the run that hold self.semaphore.
CP_AllHolders == {<<s, e>> \in Munis \X Ids : e \in CP_Holders(s)}

\* C11: at every moment at most MAX_CONCURRENT_REQUESTS fetches have acquired
\* the global semaphore and not yet returned, sleeping ones included,
\* however many fetch tasks have been created.
C11_SemaphoreBound ==
    Cardinality(CP_AllHolders) <= CP_MAX_CONCURRENT_REQUESTS

\* The semaphore is full, one holder sleeps in backoff and a created task
\* is waiting for a permit.
C11_Witness ==
    /\ prog = "civicplus"
    /\ Cardinality(CP_AllHolders) = CP_MAX_CONCURRENT_REQUESTS
    /\ \E s \in Munis :
          /\ FetchesAt(s, {"backoff"}) # {}
          /\ FetchesAt(s, {"created"}) # {}

\* Requests that have been sent and not yet answered.
InFlight == Cardinality({<<s, e>> \in Munis \X Ids : fetches[s][e].pc = "request"})

\* The requests one site may have outstanding at a time: the permits of
\* self.semaphore in civicplus_scraper.py, the ids of a sub-batch in
\* scrape_municipal_staff.py.
PerSiteLimit ==
    IF prog = "civicplus" THEN CP_MAX_CONCURRENT_REQUESTS ELSE NumFetches

GlobalLimit ==
    IF prog = "civicplus" THEN CP_MAX_CONCURRENT_REQUESTS
    ELSE MS_MAX_CONCURRENT_REQUESTS

C13_NotFoundIsTerminal ==
    [][\A s \in Munis, e \in Ids :
         /\ (fetches[s][e].pc = "request" /\ fetches'[s][e].last = "404")
               => /\ fetches'[s][e].pc = "returned"
                  /\ ~fetches'[s][e].body
                  /\ fetches'[s][e].delays = fetches[s][e].delays
                  /\ fetches'[s][e].sent = fetches[s][e].sent
         /\ fetches[s][e].last = "404"
               => fetches'[s][e].sent <= fetches[s][e].sent]_vars

\* A page fetch has returned on a 404 that answered its second attempt.
C13_Witness ==
    \E s \in Munis, e \in Ids :
       /\ prog = "civicplus"
       /\ fetches[s][e].pc = "returned" /\ fetches[s][e].last = "404"
       /\ fetches[s][e].sent = 2 /\ fetches[s][e].ret = "None"

\* The number of attempts a fetch may make.
RetryBound == IF prog = "civicplus" THEN REQUEST_RETRY_ATTEMPTS ELSE MAX_RETRIES

\* C14: a response whose status is neither 404 nor 2xx is retried like a
\* timeout, so a fetch that ends on such a status has used all its attempts.
C14_ServerErrorRetried ==
    \A s \in Munis, e \in Ids :
       (fetches[s][e].pc = "returned" /\ fetches[s][e].last = "503")
          => fetches[s][e].sent = RetryBound

\* C14 as amended: a response whose status is neither 404 nor 200 ends the
\* fetch in the same step, without backoff and without a further request;
\* only an attempt that raised is followed by backoff and another attempt.
C14_ServerErrorReturned ==
    [][\A s \in Munis, e \in Ids :
         /\ (fetches[s][e].pc = "request" /\ fetches'[s][e].last = "503")
               => /\ fetches'[s][e].pc = "returned"
                  /\ fetches'[s][e].delays = fetches[s][e].delays
                  /\ fetches'[s][e].sent = fetches[s][e].sent
                  /\ fetches'[s][e].ret =
                        (IF prog = "staff" /\ spc[s] = "fetching"
                         THEN "None" ELSE "value")
         /\ fetches[s][e].last = "503"
               => fetches'[s][e].sent <= fetches[s][e].sent
         /\ fetches'[s][e].pc = "backoff"
               => fetches'[s][e].last = "none"]_vars

\* A content fetch has returned None on a 503 that answered its first
\* attempt.
C14_Witness ==
    \E s \in Munis, e \in Ids :
       /\ prog = "staff" /\ spc[s] = "fetching"
       /\ fetches[s][e].pc = "returned" /\ fetches[s][e].last = "503"
       /\ fetches[s][e].sent = 1 /\ fetches[s][e].ret = "None"

\* C15: a fetch sends at most R requests, whatever the responses; when every
\* attempt raised, a timeout or a client error alike, it has sent exactly R
\* requests when it returns the failure outcome.
C15_AttemptsBounded ==
    \A s \in Munis, e \in Ids :
       /\ fetches[s][e].sent <= RetryBound
       /\ (fetches[s][e].pc = "returned"
              /\ fetches[s][e].last \in {"timeout", "client_error"})
             => /\ fetches[s][e].sent = RetryBound
                /\ fetches[s][e].ret = "None"
                /\ ~fetches[s][e].body

\* A page fetch has returned after its last attempt timed out.
C15_Witness ==
    \E s \in Munis, e \in Ids :
       /\ prog = "civicplus"
       /\ fetches[s][e].pc = "returned" /\ fetches[s][e].last = "timeout"
       /\ fetches[s][e].sent = REQUEST_RETRY_ATTEMPTS

\* C16: within one fetch the backoff delays never decrease from one failed
\* attempt to the next.
C16_BackoffMonotone ==
    \A s \in Munis, e \in Ids :
       \A k \in 1..(Len(fetches[s][e].delays) - 1) :
          fetches[s][e].delays[k + 1] >= fetches[s][e].delays[k]

\* A page fetch has slept two backoff delays.
C16_Witness ==
    \E s \in Munis, e \in Ids :
       prog = "civicplus" /\ Len(fetches[s][e].delays) = 2

\* C17: within one fetch each backoff delay is exactly twice the one before,
\* for page fetches, existence probes and content fetches.
C17_BackoffDoubles ==
    \A s \in Munis, e \in Ids :
       \A k \in 1..(Len(fetches[s][e].delays) - 1) :
          fetches[s][e].delays[k + 1] = 2 * fetches[s][e].delays[k]

\* C17 as amended: the delays of a page fetch are 1 s, 2 s, ..., each twice
\* the one before; every delay of a probe or of a content fetch is
\* RETRY_DELAY.
C17_BackoffPerScript ==
    \A s \in Munis, e \in Ids :
       LET delays == fetches[s][e].delays
       IN  \A k \in 1..Len(delays) :
              delays[k] = IF prog = "staff" THEN RETRY_DELAY
                          ELSE IF k = 1 THEN 1 ELSE 2 * delays[k - 1]

\* A probe has slept two retry delays.
C17_Witness ==
    \E s \in Munis, e \in Ids :
       /\ prog = "staff" /\ spc[s] = "probing"
       /\ fetches[s][e].delays = <<RETRY_DELAY, RETRY_DELAY>>

\* Fetch e of site s returns in this step because its attempts are exhausted.
Exhausts(s, e) ==
    /\ fetches[s][e].pc \in {"request", "backoff"}
    /\ fetches'[s][e].pc = "returned"
    /\ fetches'[s][e].last \in {"timeout", "client_error"}

\* The step leaves the site and every other fetch as they are: nothing is
\* cancelled.
OthersContinue(s, e) ==
    /\ spc' = spc
    /\ \A r \in Munis, d \in Ids :
          <<r, d>> # <<s, e>> => fetches'[r][d] = fetches[r][d]

\* No record stems from a fetch that returned f.
YieldsNoRecord(s, f) ==
    /\ f.ret = "None" /\ ~f.body
    /\ IF prog = "civicplus" THEN CP_scrape_page("exhausted", "staff") = None
       ELSE IF spc[s] = "probing" THEN ~MS_is_valid(MS_status_result(f))
       ELSE MS_fetch_content("exhausted") = MS_NoContent

\* C18: when the attempts of a fetch are exhausted the error count of the
\* run grows by exactly one, no record is emitted for the URL and the other
\* fetches and sites go on.
C18_ExhaustionCounted ==
    [][\A s \in Munis, e \in Ids :
         Exhausts(s, e) => /\ total_errors' = total_errors + 1
                           /\ YieldsNoRecord(s, fetches'[s][e])
                           /\ OthersContinue(s, e)]_vars

\* C18 as amended: civicplus_scraper.py counts the exhausted fetch once and
\* counts nothing else here; scrape_municipal_staff.py keeps no error count;
\* in both no record is emitted for the URL and the other fetches and sites
\* go on.
C18_ExhaustionCountedOnce ==
    [][/\ \A s \in Munis, e \in Ids :
            Exhausts(s, e) =>
               /\ total_errors' = total_errors
                                     + (IF prog = "civicplus" THEN 1 ELSE 0)
               /\ YieldsNoRecord(s, fetches'[s][e])
               /\ OthersContinue(s, e)
       /\ total_errors' # total_errors =>
            \E s \in Munis, e \in Ids : Exhausts(s, e)]_vars

\* After a page fetch of the first site was exhausted and counted, the
\* fetches of the second site are under way.
C18_Witness ==
    /\ prog = "civicplus" /\ total_errors = 1
    /\ spc[1] = "done" /\ spc[2] = "fetching"
    /\ FetchesAt(2, {"request"}) # {}

\* C19: every request attempt, retries and probes included, is preceded by
\* one politeness delay: as many politeness sleeps have elapsed in a fetch
\* as it has sent requests.
C19_PolitenessBeforeEveryRequest ==
    \A s \in Munis, e \in Ids : fetches[s][e].polite = fetches[s][e].sent

\* C19 as amended: in civicplus_scraper.py one politeness sleep has elapsed
\* for every request sent; in scrape_municipal_staff.py no request is
\* preceded by a politeness sleep, a retry only by its retry delay.
C19_PolitenessPerScript ==
    \A s \in Munis, e \in Ids :
       IF prog = "civicplus"
       THEN fetches[s][e].polite = fetches[s][e].sent
       ELSE /\ fetches[s][e].polite = 0
            /\ fetches[s][e].pc = "request"
                  => Len(fetches[s][e].delays) = fetches[s][e].sent - 1

\* The second request of a page fetch is out, after its second politeness
\* sleep.
C19_Witness ==
    \E s \in Munis, e \in Ids :
       /\ prog = "civicplus"
       /\ fetches[s][e].pc = "request"
       /\ fetches[s][e].sent = 2 /\ fetches[s][e].polite = 2

\* C20: in a sub-batch a content request is issued for an id only if its
\* probe returned 200; an id whose probe returned 404 or another status, or
\* failed, gets no content request.
C20_ContentOnlyAfter200 ==
    \A s \in Munis, e \in Ids :
       (prog = "staff" /\ spc[s] = "fetching") =>
          IF fetches[s][e].probed = "200"
          THEN fetches[s][e].pc # "skipped" /\ fetches[s][e].sent >= 1
          ELSE fetches[s][e].pc = "skipped" /\ fetches[s][e].sent = 0

\* Phase 2 of a sub-batch whose probes returned 200, 404 and 503: one
\* content request is out.
C20_Witness ==
    \E s \in Munis :
       /\ prog = "staff" /\ spc[s] = "fetching"
       /\ {fetches[s][e].probed : e \in Ids} = {"200", "404", "503"}
       /\ FetchesAt(s, {"request"}) # {}

\* ---------------------------------------------------------------------------
\* Logs, auto-save and writers of the staff script (Spec).
\* ---------------------------------------------------------------------------

\* The 404 statuses the filter loop of sub-batch task m has already handled.
NotFoundHandled(m) ==
    IF mpc[m] = "filter"
    THEN {k \in 1..(idx[m] - 1) : status_results[m][k] = 404}
    ELSE {}

\* C21 (as stated): every id whose probe returned 404 yields a not-found log
\* entry: once the filter loop of a sub-batch has handled its 404 statuses,
\* the not-found log holds at least as many entries.
C21_Every404Logged ==
    \A m \in Munis :
        Len(DataRows(not_found_disk \o not_found_buf)) >= Cardinality(NotFoundHandled(m))

\* C21 (amended): an id whose probe returns 404 is skipped without any
\* log entry: the not-found log never holds more than its header row.
C21_NotFoundLogHeaderOnly ==
    /\ not_found_buf = <<>>
    /\ not_found_disk \in {<<>>, <<HeaderRow>>}
    /\ (prog = "staff" /\ not_found_file_handle = "open"
            => not_found_disk = <<HeaderRow>>)

C21_Witness ==
    /\ prog = "staff" /\ not_found_file_handle = "open"
    /\ \E m \in Munis : NotFoundHandled(m) # {}

\* The records of the staff script that are in the results buffer or in the
\* primary output store (written, flushed or not).
MainOutputRecords == DataRows(csv_disk \o csv_buf) \o results_buffer

\* C22: in the staff script every record in the results buffer or in the
\* primary output store has its entry flushed to the success log, no entry
\* waits unflushed, and the log holds one entry per record emitted so far.
C22_SuccessLogNotBehind ==
    prog = "staff" =>
        /\ success_buf = <<>>
        /\ Range(MainOutputRecords) \subseteq Range(DataRows(success_disk))
        /\ Len(MainOutputRecords) <= Len(DataRows(success_disk))
        /\ Len(DataRows(success_disk)) = emitted

C22_Witness ==
    /\ prog = "staff" /\ emitted >= 2
    /\ results_buffer # <<>>
    /\ DataRows(csv_disk) # <<>>

\* Sub-batch task m takes an iteration of its result loop that reaches
\* check_auto_save (the content is neither an exception nor None).
AutoSaveCheckRuns(m) ==
    /\ prog = "staff" /\ mpc[m] = "process"
    /\ idx[m] <= Len(content_results[m])
    /\ idx'[m] = idx[m] + 1
    /\ MS_fetch_content(content_results[m][idx[m]]) # MS_NoContent

\* A step writes rows to the primary output store of the staff script.
StoreWritten ==
    /\ prog = "staff"
    /\ DataRows(csv_disk' \o csv_buf') # DataRows(csv_disk \o csv_buf)

\* C23: a step in which check_auto_save runs leaves the buffer empty unless
\* less than the auto-save interval has elapsed since the last write, and
\* loses no record in doing so; every step that writes to the primary output
\* store (size, time or shutdown) sets the time of the last write to now.
C23_AutoSave ==
    [][ /\ \A m \in Munis : AutoSaveCheckRuns(m) =>
              /\ \/ results_buffer' = <<>>
                 \/ /\ last_auto_save' # -1
                    /\ now' - last_auto_save' < AUTO_SAVE_INTERVAL
              /\ IsPrefix(MainOutputRecords, MainOutputRecords')
        /\ StoreWritten => last_auto_save' = now'
      ]_vars

\* A time-triggered save has just happened: fewer rows than a size-triggered
\* write holds were written, before the end of the run, at the current time.
C23_Witness ==
    /\ prog = "staff" /\ pc = "gather"
    /\ results_buffer = <<>>
    /\ DataRows(csv_disk \o csv_buf) # <<>>
    /\ Len(DataRows(csv_disk \o csv_buf)) < MS_BATCH_SIZE
    /\ last_auto_save = now
    /\ now >= AUTO_SAVE_INTERVAL

\* ---------------------------------------------------------------------------
\* Isolation of failures (FetchSpec).
\* ---------------------------------------------------------------------------

\* Fetch e of site s returns in this step without a value: its attempts are
\* exhausted or its response is one the caller gets nothing from.
FetchFails(s, e) ==
    /\ fetches[s][e].pc \notin {"returned", "skipped", "idle"}
    /\ fetches'[s][e].pc = "returned"
    /\ fetches'[s][e].ret = "None"

\* A gather of site s completes in this step.
SiteLeavesGather(s) ==
    /\ spc[s] \in {"probing", "fetching"}
    /\ spc'[s] # spc[s]

Stores ==
    <<csv_disk, csv_buf, success_disk, success_buf, not_found_disk, not_found_buf>>

\* A step appends to, or flushes, the primary output store or a side-log.
StoresChanged ==
    <<csv_disk', csv_buf', success_disk', success_buf', not_found_disk',
      not_found_buf'>> # Stores

\* The step is taken by a concurrent producer: by scrape_municipality and
\* its page coroutines in civicplus_scraper.py, by a site task
\* (process_with_semaphore and what it calls) in scrape_municipal_staff.py.
ProducerStep ==
    IF prog = "civicplus"
    THEN pc \in {"dept_create", "staff_create", "dept_gather", "staff_gather",
                 "staff_check"}
    ELSE \E m \in Munis : mpc'[m] # mpc[m] \/ idx'[m] # idx[m]

\* The step is one iteration of the result loop of process_eid_batch, taken
\* by one site task while every other site task stays where it is.
ResultLoopIteration ==
    \E m \in Munis :
        /\ mpc[m] = "process" /\ idx'[m] = idx[m] + 1
        /\ \A r \in Munis \ {m} : mpc'[r] = mpc[r] /\ idx'[r] = idx[r]

\* C25 (as stated): no step of a producer task appends to or flushes the
\* primary output store or a side-log.
C25_ProducersNeverWrite == [][StoresChanged => ~ProducerStep]_vars

\* C25 (amended): in civicplus_scraper.py only main writes; in
\* scrape_municipal_staff.py the site tasks write themselves, and only in an
\* iteration of the result loop of process_eid_batch, one task at a time.
C25_WritersPerScript ==
    [][StoresChanged /\ ProducerStep => prog = "staff" /\ ResultLoopIteration]_vars

\* A site task has written an entry to the success log from its result loop
\* while the task of another site is still to run.
C25_Witness ==
    /\ prog = "staff" /\ pc = "gather"
    /\ DataRows(success_disk) # <<>>
    /\ \E m1, m2 \in Munis :
          /\ m1 # m2
          /\ mpc[m1] = "process" /\ idx[m1] > 1
          /\ mpc[m2] # "done"

\* ---------------------------------------------------------------------------
\* The rate limiter of government_website_finder.py (LimiterSpec).
\* ---------------------------------------------------------------------------

\* The step is a call of record_success_batch / record_rate_limit_batch.
SuccessCall == last_call'.seq # last_call.seq /\ last_call'.op = "success"
RateLimitCall == last_call'.seq # last_call.seq /\ last_call'.op = "rate_limit"

\* The call of this step brings the count it adds to up to its threshold.
ReachesSuccessThreshold ==
    consecutive_successes + last_call'.count >= SUCCESS_THRESHOLD
ReachesFailureThreshold ==
    consecutive_failures + last_call'.count >= FAILURE_THRESHOLD

\* C26: after any sequence of calls the concurrency limit is within
\* [min_concurrent, max_concurrent].
C26_LimitWithinBounds ==
    /\ min_concurrent <= concurrent_limit
    /\ concurrent_limit <= max_concurrent

\* The limit has just been raised to max_concurrent.
C26_Witness ==
    /\ last_call.op = "success"
    /\ consecutive_successes = 0
    /\ concurrent_limit = max_concurrent

\* C27: a success batch that reaches the success threshold while the limit
\* is below max_concurrent strictly increases the limit.
C27_SuccessWindowIncreases ==
    [][SuccessCall /\ ReachesSuccessThreshold /\ concurrent_limit < max_concurrent
          => concurrent_limit' > concurrent_limit]_vars

\* C28: a rate-limited batch that reaches the failure threshold while the
\* limit is above min_concurrent strictly decreases the limit.
C28_FailureWindowDecreases ==
    [][RateLimitCall /\ ReachesFailureThreshold /\ concurrent_limit > min_concurrent
          => concurrent_limit' < concurrent_limit]_vars

\* A rate-limited batch has just lowered the limit to a value above the
\* minimum, which further rate-limited batches can lower again.
C28_Witness ==
    /\ last_call.op = "rate_limit"
    /\ consecutive_failures = 0
    /\ min_concurrent < concurrent_limit
    /\ concurrent_limit < initial_concurrent_limit

\* C29 (as stated): the success count is below its threshold after every
\* record_success_batch call and the failure count is below its threshold
\* after every record_rate_limit_batch call.
C29_CountsBelowThresholds ==
    [][/\ SuccessCall => consecutive_successes' < SUCCESS_THRESHOLD
       /\ RateLimitCall => consecutive_failures' < FAILURE_THRESHOLD]_vars

\* C29 (amended): a success batch that reaches the threshold while the limit
\* is below max_concurrent sets the limit to the integer part of limit * 1.2,
\* clamped to max_concurrent, and the success count to 0; at max_concurrent
\* the success count only grows; a rate-limited batch that reaches its
\* threshold sets the limit to the integer part of limit * 0.7, clamped to
\* min_concurrent, and the failure count to 0.
C29_CountsReset ==
    [][/\ SuccessCall /\ concurrent_limit < max_concurrent =>
            /\ consecutive_successes' < SUCCESS_THRESHOLD
            /\ ReachesSuccessThreshold =>
                  /\ consecutive_successes' = 0
                  /\ concurrent_limit' <= max_concurrent
                  /\ 10 * concurrent_limit' <= speedup_tenths * concurrent_limit
                  /\ concurrent_limit' < max_concurrent =>
                        speedup_tenths * concurrent_limit < 10 * (concurrent_limit' + 1)
       /\ SuccessCall /\ concurrent_limit = max_concurrent =>
            /\ consecutive_successes' = consecutive_successes + last_call'.count
            /\ concurrent_limit' = concurrent_limit
       /\ RateLimitCall =>
            /\ consecutive_failures' < FAILURE_THRESHOLD
            /\ ReachesFailureThreshold =>
                  /\ consecutive_failures' = 0
                  /\ concurrent_limit' >= min_concurrent
                  /\ backoff_tenths * concurrent_limit < 10 * (concurrent_limit' + 1)
                  /\ concurrent_limit' > min_concurrent =>
                        10 * concurrent_limit' <= backoff_tenths * concurrent_limit
      ]_vars

\* At max_concurrent the success count has reached the threshold and stays.
C29_Witness ==
    /\ last_call.op = "success"
    /\ concurrent_limit = max_concurrent
    /\ consecutive_successes >= SUCCESS_THRESHOLD

\* ---------------------------------------------------------------------------
\* Two runs against one unchanged site (RerunSpec).
\* ---------------------------------------------------------------------------

\* How often x occurs in the sequence s.
Occurrences(s, x) == Cardinality({i \in 1..Len(s) : s[i] = x})

\* Two sequences hold the same records, whatever their order.
SameRecords(s, t) ==
    \A x \in Range(s) \cup Range(t) : Occurrences(s, x) = Occurrences(t, x)

BothRunsEnded == run_no = 2 /\ run_pc = "done"

\* C30: when two runs against the same unchanged site have ended, the store
\* of the second holds the same records as the store of the first, whatever
\* the times at which each run wrote its buffer.
C30_SameRecordSet ==
    BothRunsEnded => SameRecords(first_run.records, DataRows(csv_disk))

\* Both runs have ended with a record in the store, and the second wrote
\* its buffer for the last time at another moment of the run than the first
\* (one on an auto-save, the other at the end).
C30_Witness ==
    /\ BothRunsEnded
    /\ first_run.records # <<>>
    /\ last_auto_save # first_run.written_at

\* ---------------------------------------------------------------------------
\* Extraction (RerunSpec: the answer of every page is part of the state).
\* ---------------------------------------------------------------------------

\* The pages of the site as civicplus_scraper.py requests them.
CP_PageKeys ==
    {<<"dept", d>> : d \in 1..MaxDid} \cup {<<"staff", e>> : e \in 1..MaxEid}

CP_PageOutcome(k) ==
    IF k[1] = "dept" THEN site_pages.dept[k[2]] ELSE site_pages.staff[k[2]]

\* The step is scrape_municipality over the whole site.
CP_SiteScraped == prog = "civicplus" /\ run_pc = "run" /\ run_pc' = "final"

\* The step processes an id of scrape_municipal_staff.py whose page answers
\* 200 with a body on which extraction fails.
MS_ParseFailureProcessed ==
    /\ prog = "staff" /\ run_pc = "run" /\ eid_i' = eid_i + 1
    /\ site_pages[eid_i].probe = 200
    /\ site_pages[eid_i].content = "broken"

\* C31: a page on which extraction fails yields no record and counts no
\* error, and the ids after it are processed: civicplus_scraper.py emits
\* one record for each page that parses, none for the others, and counts
\* the exhausted fetches only; scrape_municipal_staff.py leaves buffer,
\* store, success log and error count as they are and goes on to the next id.
C31_ParseFailureSkipped ==
    [][/\ CP_SiteScraped =>
            /\ Len(MainOutputRecords') = Len(MainOutputRecords) +
                  Cardinality({k \in CP_PageKeys :
                                  CP_PageOutcome(k) \in {"named", "unnamed"}})
            /\ \A r \in Range(MainOutputRecords') : r.fetch # "broken"
            /\ total_errors' = total_errors +
                  Cardinality({k \in CP_PageKeys : CP_PageOutcome(k) = "exhausted"})
       /\ MS_ParseFailureProcessed =>
            /\ MainOutputRecords' = MainOutputRecords
            /\ success_disk' = success_disk /\ success_buf' = success_buf
            /\ total_errors' = total_errors
            /\ run_pc' = (IF eid_i = MaxEid THEN "final" ELSE "run")
      ]_vars

\* A site whose first staff page fails to parse and whose last one parses
\* has been scraped: the record of the last page is there and no error is
\* counted.
C31_Witness ==
    /\ prog = "civicplus" /\ run_no = 1 /\ run_pc = "final"
    /\ site_pages.staff[1] = "broken"
    /\ site_pages.staff[MaxEid] = "named"
    /\ \E r \in Range(MainOutputRecords) : r.kind = "staff" /\ r.fetch = "named"
    /\ total_errors = 0

\* ---------------------------------------------------------------------------
\* The email of a staff record (EmailSpec).
\* ---------------------------------------------------------------------------

\* The chain of the claim: the first mailto anchor of the block, else the
\* first mailto anchor of the page, else the address the scripts hold,
\* else nothing.
ChainEmail(pg) ==
    LET block == FirstWhere(pg.anchors, IsBioMailto)
        page == FirstWhere(pg.anchors, IsMailto)
    IN  IF block # <<>> THEN block[1].rest
        ELSE IF page # <<>> THEN page[1].rest
        ELSE IF pg.script # "none" THEN "wsd@xsd"
        ELSE ""

NoStoreWriteFailed ==
    /\ ~init_failed
    /\ Len(logged) + Len(results_buffer) + Len(results) = emitted

C34_RemovedOnlyWhenWritten ==
    [][Len(results_buffer') < Len(results_buffer) =>
          IsPrefix(DataRows(csv_disk \o csv_buf) \o results_buffer,
                   DataRows(csv_disk' \o csv_buf'))]_vars

\* ---------------------------------------------------------------------------
\* The phases of a sub-batch (Spec).
\* ---------------------------------------------------------------------------

\* Site m moves to position at in this step.
Enters(m, at) == mpc'[m] = at /\ mpc[m] # at

\* C35: the content requests of a sub-batch are issued only when every
\* probe of the sub-batch has a result, and only for ids whose probe
\* answered 200; the inter-batch delay starts only when the content
\* results have been processed (or there was nothing to fetch), and the
\* next sub-batch of the site starts only after the delay has elapsed.
C35_PhasesInOrder ==
    [][\A m \in Munis :
         /\ Enters(m, "fetching") =>
               /\ mpc[m] = "filter"
               /\ Len(status_results[m]) = MS_BatchLen(batch_i[m])
               /\ \A k \in 1..Len(valid_urls[m]) :
                      status_results[m][valid_urls[m][k]] = 200
         /\ Enters(m, "process") =>
               /\ mpc[m] = "fetching"
               /\ Len(content_results'[m]) = Len(valid_urls[m])
         /\ Enters(m, "sleep") =>
               \/ mpc[m] = "process"
               \/ mpc[m] = "filter" /\ valid_urls[m] = <<>>
         /\ batch_i'[m] # batch_i[m] =>
               \/ mpc[m] = "created" /\ batch_i'[m] = 1
               \/ mpc[m] = "sleep" /\ batch_i'[m] = batch_i[m] + 1
         /\ Enters(m, "loop") => mpc[m] \in {"created", "sleep"}
         /\ Enters(m, "probing") => mpc[m] = "loop"
      ]_vars

\* C35 witness: the second sub-batch of a site has its content requests
\* outstanding and a record has been emitted before.
C35_Witness ==
    \E m \in Munis :
       /\ prog = "staff"
       /\ batch_i[m] = 2 /\ mpc[m] = "fetching"
       /\ emitted >= 1

\* ---------------------------------------------------------------------------
\* The sub-batches of a site (BatchesSpec).
\* ---------------------------------------------------------------------------

\* The number of positions of the sub-batches that hold id e.
EidCount(e) ==
    Cardinality({<<j, k>> \in (1..Len(eid_batches)) \X (1..MaxBatchSize) :
                    k <= Len(eid_batches[j]) /\ eid_batches[j][k] = e})

\* C36: the sub-batches partition the declared range 1..last: every id of
\* the range is in exactly one sub-batch and no other id is in any, each
\* sub-batch holds between one and EID_BATCH_SIZE consecutive ids, and the
\* ids are handed to process_eid_batch in increasing order without a gap.
C36_BatchesPartitionRange ==
    batch_range_i >= 1 =>
        /\ \A e \in 0..(MaxLastEid + MaxBatchSize) :
               EidCount(e) = (IF e \in 1..eid_range.last THEN 1 ELSE 0)
        /\ \A j \in 1..Len(eid_batches) :
               /\ Len(eid_batches[j]) \in 1..eid_range.size
               /\ \A k \in 2..Len(eid_batches[j]) :
                      eid_batches[j][k] = eid_batches[j][k - 1] + 1
        /\ \A k \in 1..Len(probed_eids) : probed_eids[k] = k
        /\ batch_range_i > Len(eid_batches) =>
               Len(probed_eids) = eid_range.last
        /\ (eid_range.last = MaxEid /\ eid_range.size = EID_BATCH_SIZE) =>
               /\ Len(eid_batches) = MS_NumBatches
               /\ \A j \in 1..MS_NumBatches :
                      Len(eid_batches[j]) = MS_BatchLen(j)

\* C36 witness: a range whose length is no multiple of the batch size has
\* been processed to its end; the last sub-batch is shorter than the others.
C36_Witness ==
    /\ batch_range_i > Len(eid_batches) /\ Len(eid_batches) >= 3
    /\ eid_range.size >= 2
    /\ Len(eid_batches[Len(eid_batches)]) < eid_range.size
    /\ Len(probed_eids) = eid_range.last

\* ---------------------------------------------------------------------------
\* Batches of places (FinderSpec).
\* ---------------------------------------------------------------------------

\* The batch that was handed to process_batch_parallel last.
LastBatch == batches(places)[batch_idx]

BatchReturned == fpc \in {"gather", "done"} /\ batch_idx >= 1

RateLimitedIn(rs) == {i \in 1..Len(rs) : ~rs[i].exc /\ rs[i].website = "rate_limited"}
FoundIn(rs) == {i \in 1..Len(rs) : ~rs[i].exc /\ rs[i].website = "url"}
RaisedIn(rs) == {i \in 1..Len(rs) : rs[i].exc}

\* C37: the two counts of the rate limiter are never both non-zero; after a
\* batch with a found website the failure count is zero, rate-limited
\* requests in the same batch notwithstanding, and after a batch with
\* rate-limited requests and no found website the success count is zero.
C37_CountsNeverBothNonZero ==
    /\ consecutive_successes = 0 \/ consecutive_failures = 0
    /\ BatchReturned =>
          /\ FoundIn(gather_results) # {} => consecutive_failures = 0
          /\ (RateLimitedIn(gather_results) # {} /\ FoundIn(gather_results) = {})
                => consecutive_successes = 0

\* C37 witness: a later batch with one rate-limited request and one found
\* website has returned: the failure count is zero, the success count is not.
C37_Witness ==
    /\ BatchReturned /\ batch_idx >= 2
    /\ Cardinality(RateLimitedIn(gather_results)) = 1
    /\ Cardinality(FoundIn(gather_results)) = 1
    /\ consecutive_failures = 0 /\ consecutive_successes >= 1

\* C38: process_batch_parallel returns one result per place of the batch,
\* in the order of the batch; a request that raised or was rate-limited has
\* the result "none", a found website is returned as it is, and the marker
\* "rate_limited" is in no returned result and in no row of the output file.
C38_OneResultPerPlace ==
    /\ BatchReturned =>
          /\ Len(batch_results) = Len(LastBatch)
          /\ \A i \in 1..Len(LastBatch) :
                 /\ batch_results[i].place = LastBatch[i]
                 /\ i \in RaisedIn(gather_results) \cup RateLimitedIn(gather_results)
                       => batch_results[i].website = "none"
                 /\ i \in FoundIn(gather_results)
                       => batch_results[i].website = "url"
    /\ \A i \in 1..Len(all_results) :
          /\ all_results[i].place = i
          /\ all_results[i].website # "rate_limited"
    /\ \A i \in 1..Len(output_file) : output_file[i].website # "rate_limited"
    /\ fpc = "done" =>
          /\ Len(all_results) = Len(places)
          /\ \A i \in 1..Len(places) :
                 \E k \in 1..Len(output_file) : output_file[k] = all_results[i]

\* C38 witness: the second batch returned after one of its requests raised
\* and the other was rate-limited, and its results are in the output file.
C38_Witness ==
    /\ BatchReturned /\ batch_idx = 2
    /\ RaisedIn(gather_results) # {}
    /\ RateLimitedIn(gather_results) # {}
    /\ \A i \in 1..Len(batch_results) :
          /\ batch_results[i].website = "none"
          /\ \E k \in 1..Len(output_file) : output_file[k] = batch_results[i]

====
